---- MODULE Spec2Model ----
(***************************************************************************)
(* State-machine model of yolov5::Detector (yolov5-tensorrt): the          *)
(* init / loadEngine / detect lifecycle, the device memory set, the        *)
(* pre-processors and the output decoding.                                 *)
(*                                                                         *)
(* Conventions.                                                            *)
(*  - pointers are integers, 0 is nullptr;                                 *)
(*  - a double is an integer number of tenths (4 is 0.4), NaN is the       *)
(*    value NaN, and every comparison with NaN is false as in IEEE 754;    *)
(*  - a failure of the environment (allocation, CUDA, TensorRT, file       *)
(*    system) is an input of the action, named by the step that fails.     *)
(***************************************************************************)
EXTENDS Integers, Sequences, FiniteSets, TLC

VARIABLES
    cvCuda,             \* environment: cv::cuda::getCudaEnabledDeviceCount() > 0
    initialized,        \* Detector::_initialized
    logger,             \* Detector::_logger (0 = nullptr, 1 = default Logger, 2.. = caller's)
    trtLogger,          \* Detector::_trtLogger ([set, target])
    trtRuntime,         \* Detector::_trtRuntime (0 = nullptr)
    preprocessor,       \* Detector::_preprocessor and the object it points to
    trtEngine,          \* Detector::_trtEngine (name of the deserialized blob, "null")
    trtExecutionContext,\* Detector::_trtExecutionContext (engine it was created from)
    inputBinding,       \* Detector::_inputBinding
    outputBinding,      \* Detector::_outputBinding
    deviceMemory,       \* Detector::_deviceMemory._memory (sequence of device pointers)
    heap,               \* CUDA device heap: address -> allocated bytes (0 = free)
    outputHostMemory,   \* Detector::_outputHostMemory ([size, data])
    scoreThreshold,     \* Detector::_scoreThreshold
    nmsThreshold,       \* Detector::_nmsThreshold
    classes,            \* Detector::_classes._names (empty = not loaded)
    created,            \* how many times each init-owned object was constructed
    out,                \* the caller's std::vector<Detection> given to detect
    outBatch,           \* the caller's std::vector<std::vector<Detection>> given to detectBatch
    userClasses,        \* a Classes object of the caller ([names, logger]; logger 0 = nullptr)
    last                \* the last API call: operation, arguments, result, stages run, log

vars == <<cvCuda, initialized, logger, trtLogger, trtRuntime, preprocessor,
          trtEngine, trtExecutionContext, inputBinding, outputBinding,
          deviceMemory, heap, outputHostMemory, scoreThreshold, nmsThreshold,
          classes, created, out, outBatch, userClasses, last>>

----------------------------------------------------------------------------
(* Bounds *)

\* number of device addresses cudaMalloc can hand out
MaxBufs == 5
\* number of distinct caller-provided loggers
MaxLoggers == 1
\* cap of the construction counters
MaxCreated == 2

----------------------------------------------------------------------------
(* Program constants *)

INPUT_BGR == 1
INPUT_RGB == 2
PREPROCESSOR_CVCUDA == 4
PREPROCESSOR_CVCPU == 8

\* (InputType)-1, the "not configured" marker of the pre-processors
INPUTTYPE_NONE == -1
INPUTTYPE_BGR == 0
INPUTTYPE_RGB == 1

\* sizeof(float)
SizeofFloat == 4

\* initial value of both thresholds, 0.4, in tenths
DefaultThreshold == 4

\* the NaN double
NaN == 999

\* flags & bit
HasFlag(flags, bit) == (flags \div bit) % 2 = 1

\* IEEE comparisons on doubles in tenths
DLt(a, b) == a # NaN /\ b # NaN /\ a < b
DGt(a, b) == a # NaN /\ b # NaN /\ a > b

Min(a, b) == IF a < b THEN a ELSE b
Max(a, b) == IF a > b THEN a ELSE b

Range(s) == {s[i] : i \in 1..Len(s)}

----------------------------------------------------------------------------
(* The engine blobs the caller may hand to loadEngine.  A blob is what the *)
(* TensorRT runtime makes of it: whether it deserializes, and the binding  *)
(* table of the engine (name, dimensions, direction) in index order.       *)

Binding(n, d, i) == [name |-> n, dims |-> d, isInput |-> i]

Blobs ==
    [ corrupt  |-> [ok |-> FALSE, bindings |-> <<>>],
      A        |-> [ok |-> TRUE, bindings |->
                      << Binding("images", <<1, 3, 2, 2>>, TRUE),
                         Binding("output", <<1, 2, 7>>, FALSE) >>],
      Z        |-> [ok |-> TRUE, bindings |->
                      << Binding("images", <<1, 3, 2, 2>>, TRUE),
                         Binding("output", <<1, 2, 5>>, FALSE) >>],
      mono     |-> [ok |-> TRUE, bindings |->
                      << Binding("images", <<1, 1, 2, 2>>, TRUE),
                         Binding("output", <<1, 2, 7>>, FALSE) >>],
      B        |-> [ok |-> TRUE, bindings |->
                      << Binding("output", <<2, 2, 6>>, FALSE),
                         Binding("aux", <<2, 3>>, FALSE),
                         Binding("images", <<2, 3, 2, 4>>, TRUE) >>],
      noInput  |-> [ok |-> TRUE, bindings |->
                      << Binding("input", <<1, 3, 2, 2>>, TRUE),
                         Binding("output", <<1, 2, 7>>, FALSE) >>],
      in3      |-> [ok |-> TRUE, bindings |->
                      << Binding("images", <<3, 2, 2>>, TRUE),
                         Binding("output", <<1, 2, 7>>, FALSE) >>],
      inDyn    |-> [ok |-> TRUE, bindings |->
                      << Binding("images", <<-1, 3, 2, 2>>, TRUE),
                         Binding("output", <<1, 2, 7>>, FALSE) >>],
      noOutput |-> [ok |-> TRUE, bindings |->
                      << Binding("images", <<1, 3, 2, 2>>, TRUE),
                         Binding("out0", <<1, 2, 7>>, FALSE) >>],
      out4     |-> [ok |-> TRUE, bindings |->
                      << Binding("images", <<1, 3, 2, 2>>, TRUE),
                         Binding("output", <<1, 1, 2, 7>>, FALSE) >>],
      outDyn   |-> [ok |-> TRUE, bindings |->
                      << Binding("images", <<1, 3, 2, 2>>, TRUE),
                         Binding("output", <<1, -1, 7>>, FALSE) >>] ]

BlobNames == DOMAIN Blobs

\* ICudaEngine::getNbBindings
getNbBindings(e) == Len(Blobs[e].bindings)

\* ICudaEngine::getBindingIndex: -1 when no binding has the name
getBindingIndex(e, name) ==
    IF \E i \in 1..getNbBindings(e) : Blobs[e].bindings[i].name = name
    THEN (CHOOSE i \in 1..getNbBindings(e) : Blobs[e].bindings[i].name = name) - 1
    ELSE -1

\* ICudaEngine::getBindingDimensions (index is 0-based as in TensorRT)
getBindingDimensions(e, index) == Blobs[e].bindings[index + 1].dims

RECURSIVE dimsProduct(_, _)
dimsProduct(dims, i) ==
    IF i > Len(dims) THEN 1 ELSE dims[i] * dimsProduct(dims, i + 1)

dimsVolume(dims) == IF Len(dims) > 0 THEN dimsProduct(dims, 1) ELSE 0

\* a default-constructed EngineBinding (fields the constructor leaves unset
\* are never read before a setup)
NoBinding == [index |-> -1, name |-> "", dims |-> <<>>, volume |-> 0,
              isInput |-> FALSE]

\* EngineBinding::setup(engine, name, binding): found flag and the binding
EngineBindingSetup(e, name) ==
    LET idx == getBindingIndex(e, name) IN
    IF idx = -1
    THEN [found |-> FALSE, binding |-> [NoBinding EXCEPT !.name = name]]
    ELSE [found |-> TRUE,
          binding |-> [index |-> idx, name |-> name,
                       dims |-> getBindingDimensions(e, idx),
                       volume |-> dimsVolume(getBindingDimensions(e, idx)),
                       isInput |-> Blobs[e].bindings[idx + 1].isInput]]

isDynamic(b) == \E i \in 1..Len(b.dims) : b.dims[i] = -1

----------------------------------------------------------------------------
(* Logging: a message is <<level, sink>>, sink being the Logger object it  *)
(* is delivered to.                                                        *)

Msg(level, sink) == <<level, sink>>

\* an entry of the stage trace of a call: the stage and the batch slot
St(name) == <<name, 0>>
StAt(name, i) == <<name, i>>

Call(op, args, result, trace, log) ==
    [op |-> op, args |-> args, result |-> result, trace |-> trace, log |-> log]

NoArgs == [flags |-> 0]

----------------------------------------------------------------------------
(* The pre-processor object (CvCudaPreprocessor or CvCpuPreprocessor)      *)

NoPreprocessor ==
    [kind |-> "null", logger |-> 0,
     lastType |-> INPUTTYPE_NONE, lastBatchSize |-> -1,
     networkCols |-> 0, networkRows |-> 0,
     inputMemory |-> 0, nChannels |-> 0, channelType |-> INPUTTYPE_NONE,
     hostInputSize |-> 0, stream |-> FALSE, pending |-> {},
     transforms |-> <<>>]

NewPreprocessor(kind) == [NoPreprocessor EXCEPT !.kind = kind]

----------------------------------------------------------------------------
Init ==
    /\ cvCuda \in BOOLEAN
    /\ initialized = FALSE
    /\ logger = 0
    /\ trtLogger = [set |-> FALSE, target |-> 0]
    /\ trtRuntime = 0
    /\ preprocessor = NoPreprocessor
    /\ trtEngine = "null"
    /\ trtExecutionContext = "null"
    /\ inputBinding = NoBinding
    /\ outputBinding = NoBinding
    /\ deviceMemory = <<>>
    /\ heap = [a \in 1..MaxBufs |-> 0]
    /\ outputHostMemory = [size |-> 0, data |-> <<>>]
    /\ scoreThreshold = DefaultThreshold
    /\ nmsThreshold = DefaultThreshold
    /\ classes = <<>>
    /\ created = [logger |-> 0, trtLogger |-> 0, preprocessor |-> 0, runtime |-> 0]
    /\ out = <<>>
    /\ outBatch = <<>>
    /\ userClasses = [names |-> <<>>, logger |-> 0]
    /\ last = Call("construct", NoArgs, "SUCCESS", <<>>, <<>>)

----------------------------------------------------------------------------
(* Detector::init(flags).  The call is run as a sequence of steps over a   *)
(* record of the fields it touches; result = "" while the call is still    *)
(* running.  "fault" names the step whose allocation or runtime call fails.*)

Bump(c, what) == [c EXCEPT ![what] = Min(c[what] + 1, MaxCreated)]

InitStart ==
    [logger |-> logger, trtLogger |-> trtLogger, preprocessor |-> preprocessor,
     trtRuntime |-> trtRuntime, created |-> created,
     initialized |-> initialized, result |-> "", trace |-> <<>>, log |-> <<>>]

Fail(s, result, msgs) ==
    [s EXCEPT !.result = result, !.log = s.log \o msgs]

\* if(!_logger) _logger = std::make_shared<Logger>()
InitLoggerStep(s, fault) ==
    IF s.result # "" \/ s.logger # 0 THEN s
    ELSE IF fault = "logger"
         THEN Fail([s EXCEPT !.trace = Append(s.trace, St("logger"))],
                   "FAILURE_ALLOC", <<>>)
         ELSE [s EXCEPT !.logger = 1,
                        !.created = Bump(s.created, "logger"),
                        !.trace = Append(s.trace, St("logger"))]

\* if(!_trtLogger) _trtLogger = std::make_unique<TensorRT_Logger>(_logger)
InitTrtLoggerStep(s, fault) ==
    IF s.result # "" \/ s.trtLogger.set THEN s
    ELSE IF fault = "trtLogger"
         THEN Fail([s EXCEPT !.trace = Append(s.trace, St("trtLogger"))],
                   "FAILURE_ALLOC", <<Msg("ERROR", s.logger)>>)
         ELSE [s EXCEPT !.trtLogger = [set |-> TRUE, target |-> s.logger],
                        !.created = Bump(s.created, "trtLogger"),
                        !.trace = Append(s.trace, St("trtLogger"))]

\* a variant of UseCudaPreprocessor that does not look at the flags
UseCudaPreprocessorIgnoringFlags(flags, cvCudaAvailable) == cvCudaAvailable

\* the strategy init picks: useCudaPreprocessor
UseCudaPreprocessor(flags, cvCudaAvailable) ==
    IF HasFlag(flags, PREPROCESSOR_CVCPU) THEN FALSE ELSE cvCudaAvailable

\* if(!_preprocessor) { ... }
InitPreprocessorStep(s, flags, fault) ==
    IF s.result # "" \/ s.preprocessor.kind # "null" THEN s
    ELSE
      LET t == [s EXCEPT !.trace = Append(s.trace, St("preprocessor"))]
          cvCudaAvailable == cvCuda
          kind == IF UseCudaPreprocessor(flags, cvCudaAvailable)
                  THEN "cuda" ELSE "cpu"
      IN
      IF HasFlag(flags, PREPROCESSOR_CVCUDA) /\ HasFlag(flags, PREPROCESSOR_CVCPU)
      THEN Fail(t, "FAILURE_INVALID_INPUT", <<Msg("ERROR", s.logger)>>)
      ELSE IF HasFlag(flags, PREPROCESSOR_CVCUDA) /\ ~cvCudaAvailable
      THEN Fail(t, "FAILURE_OPENCV_NO_CUDA", <<Msg("ERROR", s.logger)>>)
      ELSE IF fault = "preprocessor"
      THEN Fail(t, "FAILURE_ALLOC",
                <<Msg("INFO", s.logger), Msg("ERROR", s.logger)>>)
      ELSE [t EXCEPT !.preprocessor =
                        [NewPreprocessor(kind) EXCEPT !.logger = s.logger],
                     !.created = Bump(s.created, "preprocessor"),
                     !.log = s.log \o <<Msg("INFO", s.logger)>>]

\* a variant of InitRuntimeStep without the if(!_trtRuntime) guard
InitRuntimeStepAlways(s, fault) ==
    IF s.result # "" THEN s
    ELSE IF fault = "runtime"
         THEN Fail([s EXCEPT !.trace = Append(s.trace, St("runtime"))],
                   "FAILURE_TENSORRT_ERROR", <<Msg("ERROR", s.logger)>>)
         ELSE [s EXCEPT !.trtRuntime = 1,
                        !.created = Bump(s.created, "runtime"),
                        !.trace = Append(s.trace, St("runtime"))]

\* if(!_trtRuntime) { createInferRuntime ... }
InitRuntimeStep(s, fault) ==
    IF s.result # "" \/ s.trtRuntime # 0 THEN s
    ELSE IF fault = "runtime"
         THEN Fail([s EXCEPT !.trace = Append(s.trace, St("runtime"))],
                   "FAILURE_TENSORRT_ERROR", <<Msg("ERROR", s.logger)>>)
         ELSE [s EXCEPT !.trtRuntime = 1,
                        !.created = Bump(s.created, "runtime"),
                        !.trace = Append(s.trace, St("runtime"))]

\* _initialized = true; return RESULT_SUCCESS
InitFinish(s) ==
    IF s.result # "" THEN s
    ELSE [s EXCEPT !.initialized = TRUE, !.result = "SUCCESS"]

\* a variant of InitRun that creates the runtime before it selects the
\* pre-processor
InitRunRuntimeFirst(flags, fault) ==
    InitFinish(
      InitPreprocessorStep(
        InitRuntimeStep(
          InitTrtLoggerStep(
            InitLoggerStep(InitStart, fault), fault), fault), flags, fault))

InitRun(flags, fault) ==
    InitFinish(
      InitRuntimeStep(
        InitPreprocessorStep(
          InitTrtLoggerStep(
            InitLoggerStep(InitStart, fault), fault), flags, fault), fault))

DetectorInit(inputs) ==
    \E in \in inputs :
     LET flags == in.flags
         fault == in.fault
     IN
      \E s \in {InitRun(flags, fault)} :
      /\ logger' = s.logger
      /\ trtLogger' = s.trtLogger
      /\ preprocessor' = s.preprocessor
      /\ trtRuntime' = s.trtRuntime
      /\ created' = s.created
      /\ initialized' = s.initialized
      /\ last' = Call("init", [flags |-> flags], s.result, s.trace, s.log)
      /\ UNCHANGED <<userClasses, cvCuda, trtEngine, trtExecutionContext, inputBinding,
                     outputBinding, deviceMemory, heap, outputHostMemory,
                     scoreThreshold, nmsThreshold, classes, out, outBatch>>

----------------------------------------------------------------------------
(* Detector::setLogger *)

\* TensorRT_Logger::log: where a message of the TensorRT runtime or engine
\* goes (0 = dropped, no logger)
TensorRTSink == IF trtLogger.set THEN trtLogger.target ELSE 0

\* a variant of DetectorSetLogger without the test for nullptr
DetectorSetLoggerAny(inputs) ==
    \E l \in inputs :
      /\ logger' = l
      /\ preprocessor' = IF preprocessor.kind # "null"
                         THEN [preprocessor EXCEPT !.logger = l]
                         ELSE preprocessor
      /\ last' = Call("setLogger", NoArgs, "SUCCESS", <<>>, <<>>)
      /\ UNCHANGED <<userClasses, cvCuda, initialized, trtLogger, trtRuntime,
                     trtEngine, trtExecutionContext,
                     inputBinding, outputBinding, deviceMemory, heap,
                     outputHostMemory, scoreThreshold, nmsThreshold,
                     classes, created, out, outBatch>>

DetectorSetLogger(inputs) ==
    \E l \in inputs :
      IF l = 0
      THEN /\ last' = Call("setLogger", NoArgs, "FAILURE_INVALID_INPUT", <<>>,
                           IF logger # 0 THEN <<Msg("ERROR", logger)>> ELSE <<>>)
           /\ UNCHANGED <<userClasses, cvCuda, initialized, logger, trtLogger, trtRuntime,
                          preprocessor, trtEngine, trtExecutionContext,
                          inputBinding, outputBinding, deviceMemory, heap,
                          outputHostMemory, scoreThreshold, nmsThreshold,
                          classes, created, out, outBatch>>
      ELSE /\ logger' = l
           /\ preprocessor' = IF preprocessor.kind # "null"
                              THEN [preprocessor EXCEPT !.logger = l]
                              ELSE preprocessor
           /\ last' = Call("setLogger", NoArgs, "SUCCESS", <<>>, <<>>)
           /\ UNCHANGED <<userClasses, cvCuda, initialized, trtLogger, trtRuntime,
                          trtEngine, trtExecutionContext,
                          inputBinding, outputBinding, deviceMemory, heap,
                          outputHostMemory, scoreThreshold, nmsThreshold,
                          classes, created, out, outBatch>>

----------------------------------------------------------------------------
(* Detector::setScoreThreshold / setNmsThreshold *)

\* if(v < 0 || v > 1) return RESULT_FAILURE_INVALID_INPUT
ThresholdRejected(v) == DLt(v, 0) \/ DGt(v, 10)

SetThresholdLog(v) ==
    IF ThresholdRejected(v) /\ logger # 0 THEN <<Msg("ERROR", logger)>> ELSE <<>>

SetThresholdResult(v) ==
    IF ThresholdRejected(v) THEN "FAILURE_INVALID_INPUT" ELSE "SUCCESS"

DetectorSetScoreThreshold(inputs) ==
    \E v \in inputs :
      /\ scoreThreshold' = IF ThresholdRejected(v) THEN scoreThreshold ELSE v
      /\ last' = Call("setScoreThreshold", [flags |-> 0, v |-> v],
                      SetThresholdResult(v), <<>>, SetThresholdLog(v))
      /\ UNCHANGED <<userClasses, cvCuda, initialized, logger, trtLogger, trtRuntime,
                     preprocessor, trtEngine, trtExecutionContext,
                     inputBinding, outputBinding, deviceMemory, heap,
                     outputHostMemory, nmsThreshold, classes, created, out, outBatch>>

DetectorSetNmsThreshold(inputs) ==
    \E v \in inputs :
      /\ nmsThreshold' = IF ThresholdRejected(v) THEN nmsThreshold ELSE v
      /\ last' = Call("setNmsThreshold", [flags |-> 0, v |-> v],
                      SetThresholdResult(v), <<>>, SetThresholdLog(v))
      /\ UNCHANGED <<userClasses, cvCuda, initialized, logger, trtLogger, trtRuntime,
                     preprocessor, trtEngine, trtExecutionContext,
                     inputBinding, outputBinding, deviceMemory, heap,
                     outputHostMemory, scoreThreshold, classes, created, out, outBatch>>

----------------------------------------------------------------------------
(* DeviceMemory: cudaMalloc / cudaFree on the device heap                  *)

FreeAddrs(h) == {a \in DOMAIN h : h[a] = 0}

\* the address cudaMalloc returns: the allocator is first-fit, so that a
\* freed address is handed out again by the next allocation; 0 when the
\* device is out of memory
cudaMalloc(h) ==
    IF FreeAddrs(h) = {} THEN 0
    ELSE CHOOSE a \in FreeAddrs(h) : \A b \in FreeAddrs(h) : a <= b

\* DeviceMemory::~DeviceMemory: cudaFree of every non-null entry, one call
\* per entry.  An address that is freed while free, or by two entries, keeps
\* the mark -1 and is never allocated again.
DeviceMemoryFree(h, mem) ==
    [a \in DOMAIN h |->
        LET n == Cardinality({i \in DOMAIN mem : mem[i] = a}) IN
        IF n = 0 THEN h[a]
        ELSE IF n = 1 /\ h[a] > 0 THEN 0
        ELSE -1]

\* DeviceMemory::setup, from binding i on; mem is output->_memory so far
RECURSIVE DeviceMemorySetupFrom(_, _, _, _, _)
DeviceMemorySetupFrom(h, e, i, mem, fault) ==
    IF i > getNbBindings(e)
    THEN [result |-> "SUCCESS", memory |-> mem, heap |-> h]
    ELSE
      LET volume == dimsVolume(getBindingDimensions(e, i - 1))
          bytes == volume * SizeofFloat
          ptr == cudaMalloc(h)
      IN
      IF fault.step = "push_back" /\ fault.at = i
      THEN [result |-> "FAILURE_ALLOC", memory |-> mem, heap |-> h]
      ELSE IF (fault.step = "cudaMalloc" /\ fault.at = i) \/ bytes <= 0 \/ ptr = 0
      THEN [result |-> "FAILURE_CUDA_ERROR", memory |-> Append(mem, 0), heap |-> h]
      ELSE DeviceMemorySetupFrom([h EXCEPT ![ptr] = bytes], e, i + 1,
                                 Append(mem, ptr), fault)

DeviceMemorySetup(h, e, fault) == DeviceMemorySetupFrom(h, e, 1, <<>>, fault)

----------------------------------------------------------------------------
(* Detector::loadEngine(path), Detector::loadEngine(data) and              *)
(* Detector::_loadEngine.  The new engine is built in locals (the record   *)
(* s) and committed by LoadCommit.                                         *)

LoadStart ==
    [result |-> "", trace |-> <<>>, log |-> <<>>,
     engine |-> "null", context |-> "null",
     input |-> NoBinding, output |-> NoBinding,
     memory |-> <<>>, heap |-> heap, hostSize |-> 0]

Stage(s, name) == [s EXCEPT !.trace = Append(s.trace, St(name))]

Info(s) == [s EXCEPT !.log = Append(s.log, Msg("INFO", logger))]

\* std::ifstream file(filepath); read the whole file into a vector
LoadReadFile(s, src, fault) ==
    IF s.result # "" \/ src # "path" THEN s
    ELSE IF fault.step = "open"
    THEN Fail(Stage(Info(s), "open"), "FAILURE_FILESYSTEM_ERROR",
              <<Msg("ERROR", logger)>>)
    ELSE IF fault.step = "read"
    THEN Fail(Stage(Stage(Info(s), "open"), "read"), "FAILURE_ALLOC",
              <<Msg("ERROR", logger)>>)
    ELSE Stage(Stage(Info(s), "open"), "read")

\* _trtRuntime->deserializeCudaEngine
LoadDeserialize(s, blob, fault) ==
    IF s.result # "" THEN s
    ELSE IF ~Blobs[blob].ok \/ fault.step = "deserialize"
    THEN Fail(Stage(Info(s), "deserialize"), "FAILURE_TENSORRT_ERROR",
              <<Msg("ERROR", logger)>>)
    ELSE [Stage(Info(s), "deserialize") EXCEPT !.engine = blob]

\* engine->createExecutionContext
LoadContext(s, fault) ==
    IF s.result # "" THEN s
    ELSE IF fault.step = "context"
    THEN Fail(Stage(s, "context"), "FAILURE_TENSORRT_ERROR",
              <<Msg("ERROR", logger)>>)
    ELSE [Stage(s, "context") EXCEPT !.context = s.engine]

\* _printBindings: one debug message per binding
LoadPrintBindings(s) ==
    IF s.result # "" THEN s
    ELSE [s EXCEPT !.log = s.log \o
                     [i \in 1..getNbBindings(s.engine) |-> Msg("DEBUG", logger)]]

\* a variant of BindingAccepted without the isDynamic check
BindingAcceptedDynamic(r, nbDims) ==
    r.found /\ Len(r.binding.dims) = nbDims

\* the checks made on a binding: found, number of dimensions, not dynamic
BindingAccepted(r, nbDims) ==
    r.found /\ Len(r.binding.dims) = nbDims /\ ~isDynamic(r.binding)

\* EngineBinding::setup(engine, "images", &input) and its checks
LoadInputBinding(s, fault) ==
    IF s.result # "" THEN s
    ELSE
      LET r == IF fault.step = "inputName"
               THEN [found |-> FALSE, binding |-> NoBinding]
               ELSE EngineBindingSetup(s.engine, "images")
      IN
      IF ~BindingAccepted(r, 4)
      THEN Fail(Stage(s, "input"), "FAILURE_MODEL_ERROR", <<Msg("ERROR", logger)>>)
      ELSE [Stage(s, "input") EXCEPT !.input = r.binding]

\* EngineBinding::setup(engine, "output", &output) and its checks
LoadOutputBinding(s, fault) ==
    IF s.result # "" THEN s
    ELSE
      LET r == IF fault.step = "outputName"
               THEN [found |-> FALSE, binding |-> NoBinding]
               ELSE EngineBindingSetup(s.engine, "output")
      IN
      IF ~BindingAccepted(r, 3)
      THEN Fail(Stage(s, "output"), "FAILURE_MODEL_ERROR", <<Msg("ERROR", logger)>>)
      ELSE [Stage(s, "output") EXCEPT !.output = r.binding]

\* a variant of LoadDeviceMemory that keeps the buffers of a failed setup
LoadDeviceMemoryLeaks(s, fault) ==
    IF s.result # "" THEN s
    ELSE
      LET r == DeviceMemorySetup(s.heap, s.engine, fault) IN
      IF r.result # "SUCCESS"
      THEN Fail([Stage(s, "devicememory") EXCEPT !.heap = r.heap],
                r.result, <<Msg("ERROR", logger), Msg("ERROR", logger)>>)
      ELSE [Stage(s, "devicememory") EXCEPT !.memory = r.memory, !.heap = r.heap]

\* DeviceMemory memory; DeviceMemory::setup(_logger, engine, &memory); on
\* failure the local is destroyed, which frees what it holds
LoadDeviceMemory(s, fault) ==
    IF s.result # "" THEN s
    ELSE
      LET r == DeviceMemorySetup(s.heap, s.engine, fault) IN
      IF r.result # "SUCCESS"
      THEN Fail([Stage(s, "devicememory") EXCEPT
                    !.heap = DeviceMemoryFree(r.heap, r.memory)],
                r.result, <<Msg("ERROR", logger), Msg("ERROR", logger)>>)
      ELSE [Stage(s, "devicememory") EXCEPT !.memory = r.memory, !.heap = r.heap]

\* a variant of LoadHostMemory that sizes the host buffer by the input
\* binding
LoadHostMemoryInputVolume(s, fault) ==
    IF s.result # "" THEN s
    ELSE IF fault.step = "hostalloc"
    THEN Fail([Stage(s, "hostmemory") EXCEPT
                  !.heap = DeviceMemoryFree(s.heap, s.memory), !.memory = <<>>],
              "FAILURE_ALLOC", <<Msg("ERROR", logger)>>)
    ELSE [Stage(s, "hostmemory") EXCEPT !.hostSize = s.input.volume]

\* outputHostMemory.resize(output.volume()); on failure the local device
\* memory is destroyed
LoadHostMemory(s, fault) ==
    IF s.result # "" THEN s
    ELSE IF fault.step = "hostalloc"
    THEN Fail([Stage(s, "hostmemory") EXCEPT
                  !.heap = DeviceMemoryFree(s.heap, s.memory), !.memory = <<>>],
              "FAILURE_ALLOC", <<Msg("ERROR", logger)>>)
    ELSE [Stage(s, "hostmemory") EXCEPT !.hostSize = s.output.volume]

LoadBuild(src, blob, fault) ==
    LoadHostMemory(
      LoadDeviceMemory(
        LoadOutputBinding(
          LoadInputBinding(
            LoadPrintBindings(
              LoadContext(
                LoadDeserialize(
                  LoadReadFile(LoadStart, src, fault),
                  blob, fault), fault)), fault), fault), fault), fault)

\* a variant of LoadKeep that assigns the deserialized engine to the live
\* field at once instead of holding it in a local until the commit
LoadKeepEngineEarly(s) ==
    [engine |-> IF s.engine = "null" THEN trtEngine ELSE s.engine,
     context |-> trtExecutionContext,
     input |-> inputBinding, output |-> outputBinding,
     memory |-> deviceMemory, heap |-> s.heap,
     host |-> outputHostMemory, preprocessor |-> preprocessor,
     result |-> s.result, log |-> s.log, trace |-> s.trace]

\* the live fields after a return of _loadEngine before the commit: the
\* locals are destroyed and no member was assigned
LoadKeep(s) ==
    [engine |-> trtEngine, context |-> trtExecutionContext,
     input |-> inputBinding, output |-> outputBinding,
     memory |-> deviceMemory, heap |-> s.heap,
     host |-> outputHostMemory, preprocessor |-> preprocessor,
     result |-> s.result, log |-> s.log, trace |-> s.trace]

\* a variant of LoadSwap that leaves the pre-processor as it is
LoadSwapNoReset(s) ==
    [engine |-> s.engine, context |-> s.context,
     input |-> s.input, output |-> s.output,
     memory |-> s.memory, heap |-> DeviceMemoryFree(s.heap, deviceMemory),
     host |-> [size |-> s.hostSize, data |-> <<>>],
     preprocessor |-> preprocessor,
     result |-> "SUCCESS",
     log |-> s.log \o (IF trtEngine # "null" THEN <<Msg("INFO", logger)>>
                       ELSE <<>>) \o <<Msg("INFO", logger)>>,
     trace |-> Append(s.trace, St("commit"))]

\* the live fields after the commit: the swaps (the old device memory ends
\* in the local and is freed with it) and _preprocessor->reset()
LoadSwap(s) ==
    [engine |-> s.engine, context |-> s.context,
     input |-> s.input, output |-> s.output,
     memory |-> s.memory, heap |-> DeviceMemoryFree(s.heap, deviceMemory),
     host |-> [size |-> s.hostSize, data |-> <<>>],
     preprocessor |-> [preprocessor EXCEPT !.lastType = INPUTTYPE_NONE],
     result |-> "SUCCESS",
     log |-> s.log \o (IF trtEngine # "null" THEN <<Msg("INFO", logger)>>
                       ELSE <<>>) \o <<Msg("INFO", logger)>>,
     trace |-> Append(s.trace, St("commit"))]

LoadCommit(s) == IF s.result # "" THEN LoadKeep(s) ELSE LoadSwap(s)

\* a variant of the guard of loadEngine that takes the presence of the
\* logger for the completion of init
LoadEngineNotInitializedByLogger == logger = 0

\* if(!_initialized) return RESULT_FAILURE_NOT_INITIALIZED
LoadEngineNotInitialized == ~initialized

LoadArgs(blob) == [flags |-> 0, blob |-> blob]

DetectorLoadEngine(inputs) ==
    \E in \in inputs :
     LET src == in.src
         blob == in.blob
         fault == in.fault
     IN
      IF LoadEngineNotInitialized
      THEN /\ last' = Call("loadEngine", LoadArgs(blob),
                           "FAILURE_NOT_INITIALIZED", <<>>,
                           IF logger # 0 THEN <<Msg("ERROR", logger)>> ELSE <<>>)
           /\ UNCHANGED <<userClasses, cvCuda, initialized, logger, trtLogger, trtRuntime,
                          preprocessor, trtEngine, trtExecutionContext,
                          inputBinding, outputBinding, deviceMemory, heap,
                          outputHostMemory, scoreThreshold, nmsThreshold,
                          classes, created, out, outBatch>>
      ELSE \E c \in {LoadCommit(LoadBuild(src, blob, fault))} :
           /\ trtEngine' = c.engine
           /\ trtExecutionContext' = c.context
           /\ inputBinding' = c.input
           /\ outputBinding' = c.output
           /\ deviceMemory' = c.memory
           /\ heap' = c.heap
           /\ outputHostMemory' = c.host
           /\ preprocessor' = c.preprocessor
           /\ last' = Call("loadEngine", LoadArgs(blob), c.result, c.trace, c.log)
           /\ UNCHANGED <<userClasses, cvCuda, initialized, logger, trtLogger, trtRuntime,
                          scoreThreshold, nmsThreshold, classes, created, out, outBatch>>

----------------------------------------------------------------------------
(* PreprocessorTransform.  The scale factor f is the rational fnum/fden.   *)

\* conversion of a quotient to int truncates toward zero
TruncDiv(a, b) == IF a >= 0 THEN a \div b ELSE -((-a) \div b)

\* PreprocessorTransform(): _inputSize(0,0), _f(1), _leftWidth(0), _topHeight(0)
DefaultTransform ==
    [width |-> 0, height |-> 0, fnum |-> 1, fden |-> 1,
     leftWidth |-> 0, topHeight |-> 0]

Rect(x, y, w, h) == [x |-> x, y |-> y, width |-> w, height |-> h]

\* a variant of transformBbox that does not cut the width and the height
\* at the border of the image
transformBboxUnclipped(t, input) ==
    LET x0 == TruncDiv((input.x - t.leftWidth) * t.fden, t.fnum)
        x == Max(0, Min(x0, t.width - 1))
        y0 == TruncDiv((input.y - t.topHeight) * t.fden, t.fnum)
        y == Max(0, Min(y0, t.height - 1))
    IN Rect(x, y, TruncDiv(input.width * t.fden, t.fnum),
            TruncDiv(input.height * t.fden, t.fnum))

\* a variant of transformBbox that leaves the box alone when the transform
\* neither scales nor pads
transformBboxIdentityShortcut(t, input) ==
    IF t.fnum = t.fden /\ t.leftWidth = 0 /\ t.topHeight = 0
    THEN input
    ELSE
      LET x0 == TruncDiv((input.x - t.leftWidth) * t.fden, t.fnum)
          x == Max(0, Min(x0, t.width - 1))
          y0 == TruncDiv((input.y - t.topHeight) * t.fden, t.fnum)
          y == Max(0, Min(y0, t.height - 1))
          w0 == TruncDiv(input.width * t.fden, t.fnum)
          h0 == TruncDiv(input.height * t.fden, t.fnum)
      IN Rect(x, y, IF x + w0 > t.width THEN t.width - x ELSE w0,
              IF y + h0 > t.height THEN t.height - y ELSE h0)

transformBbox(t, input) ==
    LET x0 == TruncDiv((input.x - t.leftWidth) * t.fden, t.fnum)
        x == Max(0, Min(x0, t.width - 1))
        y0 == TruncDiv((input.y - t.topHeight) * t.fden, t.fnum)
        y == Max(0, Min(y0, t.height - 1))
        w0 == TruncDiv(input.width * t.fden, t.fnum)
        w == IF x + w0 > t.width THEN t.width - x ELSE w0
        h0 == TruncDiv(input.height * t.fden, t.fnum)
        h == IF y + h0 > t.height THEN t.height - y ELSE h0
    IN Rect(x, y, w, h)

\* a variant of Letterbox that scales by the larger of the two ratios
LetterboxLargerRatio(img, networkRows, networkCols) ==
    LET byRows == networkRows * img.cols > networkCols * img.rows
        fnum == IF byRows THEN networkRows ELSE networkCols
        fden == IF byRows THEN img.rows ELSE img.cols
        boxWidth == TruncDiv(img.cols * fnum, fden)
        boxHeight == TruncDiv(img.rows * fnum, fden)
        dr == networkRows - boxHeight
        dc == networkCols - boxWidth
    IN [fnum |-> fnum, fden |-> fden,
        boxWidth |-> boxWidth, boxHeight |-> boxHeight,
        topHeight |-> dr \div 2, bottomHeight |-> dr - (dr \div 2),
        leftWidth |-> dc \div 2, rightWidth |-> dc - (dc \div 2)]

\* the locals of process() for an image that is not of the network size:
\* f = MIN(_networkRows / rows, _networkCols / cols) as fnum / fden, boxSize,
\* and the borders (floor and ceil of dr / 2.0 and dc / 2.0)
Letterbox(img, networkRows, networkCols) ==
    LET byRows == networkRows * img.cols < networkCols * img.rows
        fnum == IF byRows THEN networkRows ELSE networkCols
        fden == IF byRows THEN img.rows ELSE img.cols
        boxWidth == TruncDiv(img.cols * fnum, fden)
        boxHeight == TruncDiv(img.rows * fnum, fden)
        dr == networkRows - boxHeight
        dc == networkCols - boxWidth
    IN [fnum |-> fnum, fden |-> fden,
        boxWidth |-> boxWidth, boxHeight |-> boxHeight,
        topHeight |-> dr \div 2, bottomHeight |-> dr - (dr \div 2),
        leftWidth |-> dc \div 2, rightWidth |-> dc - (dc \div 2)]

\* the transform process() records for an image on a network of
\* networkRows x networkCols
ImageTransform(img, networkRows, networkCols) ==
    IF img.rows = networkRows /\ img.cols = networkCols
    THEN [width |-> img.cols, height |-> img.rows, fnum |-> 1, fden |-> 1,
          leftWidth |-> 0, topHeight |-> 0]
    ELSE
      LET b == Letterbox(img, networkRows, networkCols)
      IN [width |-> img.cols, height |-> img.rows,
          fnum |-> b.fnum, fden |-> b.fden,
          leftWidth |-> b.leftWidth, topHeight |-> b.topHeight]

----------------------------------------------------------------------------
(* Preprocessor::setup of both variants.  Result: [ok, pre, log].          *)

InputTypeOf(flags) == IF HasFlag(flags, INPUT_RGB) THEN INPUTTYPE_RGB ELSE INPUTTYPE_BGR

PreResult(ok, pre, log) == [ok |-> ok, pre |-> pre, log |-> log]

PreErr(pre) == <<Msg("ERROR", pre.logger)>>

\* a variant of PreprocessorConfigure without the test of the last type and
\* batch size
PreprocessorConfigureAlways(p, dims, flags, batchSize, inputMemory, fault) ==
    LET inputType == InputTypeOf(flags)
        marked == [p EXCEPT !.lastType = inputType,
                            !.lastBatchSize = batchSize,
                            !.networkRows = dims[3],
                            !.networkCols = dims[4],
                            !.nChannels = 0]
        cleared == IF p.kind = "cpu"
                   THEN [marked EXCEPT !.inputMemory = inputMemory]
                   ELSE marked
    IN
    IF HasFlag(flags, INPUT_RGB) /\ HasFlag(flags, INPUT_BGR)
    THEN PreResult(FALSE, p, PreErr(p))
    ELSE IF fault.step = "setupAlloc"
    THEN PreResult(FALSE, cleared, PreErr(p))
    ELSE PreResult(TRUE,
                   [cleared EXCEPT !.inputMemory = inputMemory,
                                   !.nChannels = batchSize,
                                   !.channelType = inputType,
                                   !.hostInputSize =
                                       IF p.kind = "cpu" THEN dimsVolume(dims)
                                       ELSE p.hostInputSize],
                   <<>>)

\* the part of setup shared by the two variants, after the stream exists
PreprocessorConfigure(p, dims, flags, batchSize, inputMemory, fault) ==
    LET inputType == InputTypeOf(flags)
        marked == [p EXCEPT !.lastType = inputType,
                            !.lastBatchSize = batchSize,
                            !.networkRows = dims[3],
                            !.networkCols = dims[4],
                            !.nChannels = 0]
        cleared == IF p.kind = "cpu"
                   THEN [marked EXCEPT !.inputMemory = inputMemory]
                   ELSE marked
    IN
    IF HasFlag(flags, INPUT_RGB) /\ HasFlag(flags, INPUT_BGR)
    THEN PreResult(FALSE, p, PreErr(p))
    ELSE IF p.lastType = inputType /\ p.lastBatchSize = batchSize
    THEN PreResult(TRUE, p, <<>>)
    ELSE IF fault.step = "setupAlloc"
    THEN PreResult(FALSE, cleared, PreErr(p))
    ELSE PreResult(TRUE,
                   [cleared EXCEPT !.inputMemory = inputMemory,
                                   !.nChannels = batchSize,
                                   !.channelType = inputType,
                                   !.hostInputSize =
                                       IF p.kind = "cpu" THEN dimsVolume(dims)
                                       ELSE p.hostInputSize],
                   <<>>)

PreprocessorSetup(p, dims, flags, batchSize, inputMemory, fault) ==
    IF p.kind = "cpu" /\ ~p.stream /\ fault.step = "stream"
    THEN PreResult(FALSE, p, PreErr(p))
    ELSE PreprocessorConfigure(
            IF p.kind = "cpu" THEN [p EXCEPT !.stream = TRUE] ELSE p,
            dims, flags, batchSize, inputMemory, fault)

----------------------------------------------------------------------------
(* Preprocessor::process of both variants; slot is the 1-based batch slot  *)
(* (index + 1).  Result: [ok, pre, log, trace].                            *)

ProcResult(ok, pre, log, trace) ==
    [ok |-> ok, pre |-> pre, log |-> log, trace |-> trace]

\* Preprocessor::process: _transforms.resize(index + 1) when too short
GrowTransforms(ts, slot) ==
    IF Len(ts) < slot
    THEN ts \o [i \in 1..(slot - Len(ts)) |-> DefaultTransform]
    ELSE ts

\* CvCpuPreprocessor::setup: the views of slot index lie at
\* _hostInputMemory.data() + index * area * 3 and hold three channels of
\* area floats; the result is the offset (in floats) behind the last one
StagingEnd(p, slot) == slot * 3 * p.networkRows * p.networkCols

\* CvCpuPreprocessor::process: the number of floats of the host-to-device
\* copy, _inputChannels.size() * 3 * _buffer3.size().area()
HostCopyCount(p) == p.nChannels * 3 * p.networkRows * p.networkCols

\* a variant of ProcessImage whose CPU path copies the host buffer to the
\* device with every image
ProcessImageCopyEach(p, slot, img, isLast, fault) ==
    LET sameSize == img.rows = p.networkRows /\ img.cols = p.networkCols
        t == ImageTransform(img, p.networkRows, p.networkCols)
        written == [p EXCEPT !.transforms[slot] = t]
        thrown == fault.step = "process" /\ fault.at = slot
        \* _inputChannels[index] does not exist, or its three views end
        \* behind _hostInputMemory: the access is undefined, the call either
        \* goes on or ends in the catch block
        undefinedAccess == \/ slot > p.nChannels
                           \/ /\ p.kind = "cpu"
                              /\ StagingEnd(p, slot) > p.hostInputSize
        queued == IF p.kind = "cuda"
                  THEN [written EXCEPT !.pending = p.pending \cup {"preprocess"}]
                  ELSE written
        \* cv::resize and cv::copyMakeBorder run for other sizes only
        resized == IF sameSize THEN <<>> ELSE <<StAt("resize", slot)>>
        ubTrace == resized \o
                   (IF undefinedAccess THEN <<StAt("undefined", slot)>> ELSE <<>>)
    IN
    IF thrown
    THEN ProcResult(FALSE, IF sameSize THEN p ELSE written, PreErr(p), <<>>)
    ELSE IF undefinedAccess /\ fault.ub = "throws"
    THEN ProcResult(FALSE, written, PreErr(p), ubTrace)
    ELSE IF p.kind = "cpu"
    THEN IF fault.step = "h2d"
         THEN ProcResult(FALSE, written, PreErr(p), ubTrace)
         ELSE ProcResult(TRUE, [written EXCEPT !.pending = p.pending \cup {"h2d"}],
                         <<>>, ubTrace \o <<StAt("h2d", slot)>>)
    ELSE ProcResult(TRUE, queued, <<>>, ubTrace)

\* a variant of ProcessImage that writes the transform of a slot only while
\* the slot holds the default transform
ProcessImageStaleTransform(p, slot, img, isLast, fault) ==
    LET sameSize == img.rows = p.networkRows /\ img.cols = p.networkCols
        t == ImageTransform(img, p.networkRows, p.networkCols)
        written == IF p.transforms[slot] = DefaultTransform
                   THEN [p EXCEPT !.transforms[slot] = t] ELSE p
        thrown == fault.step = "process" /\ fault.at = slot
        \* _inputChannels[index] does not exist, or its three views end
        \* behind _hostInputMemory: the access is undefined, the call either
        \* goes on or ends in the catch block
        undefinedAccess == \/ slot > p.nChannels
                           \/ /\ p.kind = "cpu"
                              /\ StagingEnd(p, slot) > p.hostInputSize
        queued == IF p.kind = "cuda"
                  THEN [written EXCEPT !.pending = p.pending \cup {"preprocess"}]
                  ELSE written
        \* cv::resize and cv::copyMakeBorder run for other sizes only
        resized == IF sameSize THEN <<>> ELSE <<StAt("resize", slot)>>
        ubTrace == resized \o
                   (IF undefinedAccess THEN <<StAt("undefined", slot)>> ELSE <<>>)
    IN
    IF thrown
    THEN ProcResult(FALSE, IF sameSize THEN p ELSE written, PreErr(p), <<>>)
    ELSE IF undefinedAccess /\ fault.ub = "throws"
    THEN ProcResult(FALSE, written, PreErr(p), ubTrace)
    ELSE IF p.kind = "cpu" /\ isLast
    THEN IF fault.step = "h2d"
         THEN ProcResult(FALSE, written, PreErr(p), ubTrace)
         ELSE ProcResult(TRUE, [written EXCEPT !.pending = p.pending \cup {"h2d"}],
                         <<>>, ubTrace \o <<StAt("h2d", slot)>>)
    ELSE ProcResult(TRUE, queued, <<>>, ubTrace)

\* resize / pad / normalize / split of one image, after the base class call
ProcessImage(p, slot, img, isLast, fault) ==
    LET sameSize == img.rows = p.networkRows /\ img.cols = p.networkCols
        t == ImageTransform(img, p.networkRows, p.networkCols)
        written == [p EXCEPT !.transforms[slot] = t]
        thrown == fault.step = "process" /\ fault.at = slot
        \* _inputChannels[index] does not exist, or its three views end
        \* behind _hostInputMemory: the access is undefined, the call either
        \* goes on or ends in the catch block
        undefinedAccess == \/ slot > p.nChannels
                           \/ /\ p.kind = "cpu"
                              /\ StagingEnd(p, slot) > p.hostInputSize
        queued == IF p.kind = "cuda"
                  THEN [written EXCEPT !.pending = p.pending \cup {"preprocess"}]
                  ELSE written
        \* cv::resize and cv::copyMakeBorder run for other sizes only
        resized == IF sameSize THEN <<>> ELSE <<StAt("resize", slot)>>
        ubTrace == resized \o
                   (IF undefinedAccess THEN <<StAt("undefined", slot)>> ELSE <<>>)
    IN
    IF thrown
    THEN ProcResult(FALSE, IF sameSize THEN p ELSE written, PreErr(p), <<>>)
    ELSE IF undefinedAccess /\ fault.ub = "throws"
    THEN ProcResult(FALSE, written, PreErr(p), ubTrace)
    ELSE IF p.kind = "cpu" /\ isLast
    THEN IF fault.step = "h2d"
         THEN ProcResult(FALSE, written, PreErr(p), ubTrace)
         ELSE ProcResult(TRUE, [written EXCEPT !.pending = p.pending \cup {"h2d"}],
                         <<>>, ubTrace \o <<StAt("h2d", slot)>>)
    ELSE ProcResult(TRUE, queued, <<>>, ubTrace)

\* CvCudaPreprocessor::process(Mat) uploads the image to _buffer0 first and
\* then runs process(GpuMat): the base class call, for index >= 1 the
\* stream synchronization, then the work on _buffer1.._buffer3.  The trace
\* holds "upload" and "streamsync" where they happen.
PreprocessorProcess(p, slot, img, variant, isLast, fault) ==
    LET grown == [p EXCEPT !.transforms = GrowTransforms(p.transforms, slot)]
        synced == IF p.kind = "cuda" /\ slot >= 2
                  THEN [grown EXCEPT !.pending = {}] ELSE grown
        upload == IF p.kind = "cuda" /\ variant = "mat"
                  THEN <<StAt("upload", slot)>> ELSE <<>>
        sync == IF p.kind = "cuda" /\ slot >= 2
                THEN <<StAt("streamsync", slot)>> ELSE <<>>
    IN
    IF p.kind = "cpu" /\ variant = "gpumat"
    THEN ProcResult(FALSE, p, PreErr(p), <<>>)
    ELSE IF p.kind = "cuda" /\ variant = "mat" /\ fault.step = "upload"
                            /\ fault.at = slot
    THEN ProcResult(FALSE, p, PreErr(p), upload)
    ELSE IF Len(p.transforms) < slot /\ fault.step = "transformsAlloc"
                            /\ fault.at = slot
    THEN ProcResult(FALSE, p, PreErr(p), upload)
    ELSE IF p.kind = "cuda" /\ slot >= 2 /\ fault.step = "presync"
                            /\ fault.at = slot
    THEN ProcResult(FALSE, grown, PreErr(p), upload \o sync)
    ELSE LET r == ProcessImage(synced, slot, img, isLast, fault)
         IN ProcResult(r.ok, r.pre, r.log, upload \o sync \o r.trace)

----------------------------------------------------------------------------
(* The pre-processor used on its own: Preprocessor::setup, process and     *)
(* transformBbox called on the object init created, in an environment      *)
(* without faults.                                                         *)

NoFault == [step |-> "none", at |-> 0, ub |-> "returns"]

BoolResult(ok) == IF ok THEN "true" ELSE "false"

\* _preprocessor->setup(inputDims, flags, batchSize, inputMemory)
PreprocessorSetupCall(inputs) ==
    /\ preprocessor.kind # "null"
    /\ \E dims \in inputs :
         \E r \in {PreprocessorSetup(preprocessor, dims, 0, dims[1], 1, NoFault)} :
           /\ preprocessor' = r.pre
           /\ last' = Call("setup", [flags |-> 0, dims |-> dims],
                           BoolResult(r.ok), <<>>, r.log)
    /\ UNCHANGED <<userClasses, cvCuda, initialized, logger, trtLogger, trtRuntime,
                   trtEngine, trtExecutionContext, inputBinding, outputBinding,
                   deviceMemory, heap, outputHostMemory, scoreThreshold,
                   nmsThreshold, classes, created, out, outBatch>>

\* _preprocessor->process(index, image, last) for an index below the batch
\* size the pre-processor is set up for; slot = index + 1
PreprocessorProcessCall(inputs) ==
    /\ preprocessor.kind # "null"
    /\ \E in \in inputs :
         /\ in.slot <= preprocessor.nChannels
         /\ \E r \in {PreprocessorProcess(preprocessor, in.slot, in.img,
                                          in.variant, TRUE, NoFault)} :
              /\ preprocessor' = r.pre
              /\ last' = Call("process",
                              [flags |-> 0, slot |-> in.slot, img |-> in.img,
                               variant |-> in.variant],
                              BoolResult(r.ok), r.trace, r.log)
    /\ UNCHANGED <<userClasses, cvCuda, initialized, logger, trtLogger, trtRuntime,
                   trtEngine, trtExecutionContext, inputBinding, outputBinding,
                   deviceMemory, heap, outputHostMemory, scoreThreshold,
                   nmsThreshold, classes, created, out, outBatch>>

\* setup called with flags, a device pointer and an environment fault
PreprocessorSetupWith(inputs) ==
    /\ preprocessor.kind # "null"
    /\ \E in \in inputs :
         \E r \in {PreprocessorSetup(preprocessor, in.dims, in.flags,
                                     in.dims[1], in.memory, in.fault)} :
           /\ preprocessor' = r.pre
           /\ last' = Call("setup",
                           [flags |-> in.flags, dims |-> in.dims,
                            memory |-> in.memory],
                           BoolResult(r.ok), <<>>, r.log)
    /\ UNCHANGED <<userClasses, cvCuda, initialized, logger, trtLogger,
                   trtRuntime, trtEngine, trtExecutionContext, inputBinding,
                   outputBinding, deviceMemory, heap, outputHostMemory,
                   scoreThreshold, nmsThreshold, classes, created, out,
                   outBatch>>

\* _preprocessor->reset(): _lastType = (InputType)-1
PreprocessorReset ==
    /\ preprocessor.kind # "null"
    /\ preprocessor' = [preprocessor EXCEPT !.lastType = INPUTTYPE_NONE]
    /\ last' = Call("reset", NoArgs, "", <<>>, <<>>)
    /\ UNCHANGED <<userClasses, cvCuda, initialized, logger, trtLogger,
                   trtRuntime, trtEngine, trtExecutionContext, inputBinding,
                   outputBinding, deviceMemory, heap, outputHostMemory,
                   scoreThreshold, nmsThreshold, classes, created, out,
                   outBatch>>

\* _preprocessor->transformBbox(index, bbox) for an index _transforms has;
\* the result of the call is the box returned
PreprocessorTransformBbox(inputs) ==
    /\ preprocessor.kind # "null"
    /\ \E in \in inputs :
         /\ in.slot <= Len(preprocessor.transforms)
         /\ last' = Call("transformBbox",
                         [flags |-> 0, slot |-> in.slot, bbox |-> in.bbox],
                         transformBbox(preprocessor.transforms[in.slot], in.bbox),
                         <<>>, <<>>)
    /\ UNCHANGED <<userClasses, cvCuda, initialized, logger, trtLogger, trtRuntime,
                   preprocessor, trtEngine, trtExecutionContext, inputBinding,
                   outputBinding, deviceMemory, heap, outputHostMemory,
                   scoreThreshold, nmsThreshold, classes, created, out,
                   outBatch>>

----------------------------------------------------------------------------
(* Detector::_decodeOutput.  A row of the output tensor is                 *)
(* <<cx, cy, w, h, objectness, class scores...>>, box in pixels,           *)
(* objectness and class scores in tenths; a score (objectness times class  *)
(* score) is in hundredths.                                                *)

\* a threshold (tenths) on the scale of the scores (hundredths)
OnScoreScale(thr) == IF thr = NaN THEN NaN ELSE thr * 10

\* a variant of MaxClass where a later class of the same score replaces the
\* earlier one
RECURSIVE MaxClassLastWins(_, _, _, _)
MaxClassLastWins(row, nrClasses, i, best) ==
    IF i >= nrClasses THEN best
    ELSE MaxClassLastWins(row, nrClasses, i + 1,
                          IF row[6 + i] >= best.score
                          THEN [score |-> row[6 + i], index |-> i] ELSE best)

\* for(i < nrClasses) if(v > maxClassScore) {...}: [score, index] so far
RECURSIVE MaxClass(_, _, _, _)
MaxClass(row, nrClasses, i, best) ==
    IF i >= nrClasses THEN best
    ELSE MaxClass(row, nrClasses, i + 1,
                  IF row[6 + i] > best.score
                  THEN [score |-> row[6 + i], index |-> i] ELSE best)

RowScore(row, nrClasses) ==
    row[5] * MaxClass(row, nrClasses, 0, [score |-> 0, index |-> 0]).score

RowClass(row, nrClasses) ==
    MaxClass(row, nrClasses, 0, [score |-> 0, index |-> 0]).index

\* the two "continue" tests of the row loop
RowPasses(row, nrClasses, thr) ==
    /\ ~DLt(row[5], thr)
    /\ ~DLt(RowScore(row, nrClasses), OnScoreScale(thr))

\* cv::Rect(x, y, w, h) with x = ptr[0] - w / 2.0, y = ptr[1] - h / 2.0
RowBox(row) ==
    Rect(TruncDiv(2 * row[1] - row[3], 2), TruncDiv(2 * row[2] - row[4], 2),
         row[3], row[4])

\* boxes / scores / classes after the row loop
RECURSIVE Candidates(_, _, _, _)
Candidates(rows, nrClasses, thr, i) ==
    IF i > Len(rows) THEN <<>>
    ELSE (IF RowPasses(rows[i], nrClasses, thr)
          THEN <<[box |-> RowBox(rows[i]),
                  score |-> RowScore(rows[i], nrClasses),
                  classId |-> RowClass(rows[i], nrClasses)]>>
          ELSE <<>>) \o Candidates(rows, nrClasses, thr, i + 1)

RectArea(r) == r.width * r.height

\* (a & b).area()
IntersectionArea(a, b) ==
    LET x1 == Max(a.x, b.x)
        y1 == Max(a.y, b.y)
        w == Min(a.x + a.width, b.x + b.width) - x1
        h == Min(a.y + a.height, b.y + b.height) - y1
    IN IF w <= 0 \/ h <= 0 THEN 0 ELSE w * h

\* a variant of OverlapAllows that keeps a box whatever it overlaps
OverlapAllowsAny(a, b, nms) == TRUE

\* cv::dnn::NMSBoxes keeps a box when its overlap (1 - jaccardDistance) with
\* every kept box is <= nms_threshold
OverlapAllows(a, b, nms) ==
    LET inter == IntersectionArea(a, b)
        total == RectArea(a) + RectArea(b)
    IN IF total <= 0 THEN DLt(10, nms) \/ nms = 10
       ELSE nms # NaN /\ 10 * inter <= nms * (total - inter)

\* std::stable_sort by score, descending: indices of c in that order
RECURSIVE SortedByScore(_, _)
SortedByScore(c, idxs) ==
    IF idxs = {} THEN <<>>
    ELSE LET first == CHOOSE i \in idxs :
                        \A j \in idxs : \/ c[i].score > c[j].score
                                        \/ (c[i].score = c[j].score /\ i <= j)
         IN <<first>> \o SortedByScore(c, idxs \ {first})

RECURSIVE NmsGreedy(_, _, _, _, _)
NmsGreedy(c, order, k, kept, nms) ==
    IF k > Len(order) THEN kept
    ELSE NmsGreedy(c, order, k + 1,
                   IF \A m \in 1..Len(kept) :
                        OverlapAllows(c[order[k]].box, c[kept[m]].box, nms)
                   THEN Append(kept, order[k]) ELSE kept,
                   nms)

\* CV_Assert_N(score_threshold >= 0, nms_threshold >= 0) of NMSBoxes
NMSBoxesThrows(thr, nms) == thr = NaN \/ thr < 0 \/ nms = NaN \/ nms < 0

\* cv::dnn::NMSBoxes(boxes, scores, score_threshold, nms_threshold, indices)
NMSBoxes(c, thr, nms) ==
    NmsGreedy(c,
              SortedByScore(c, {i \in 1..Len(c) : DGt(c[i].score, OnScoreScale(thr))}),
              1, <<>>, nms)

\* a variant of ClassNameOf that gives an id past the table the last name
ClassNameOfNearest(names, classId) ==
    IF names = <<>> THEN ""
    ELSE names[Max(0, Min(classId, Len(names) - 1)) + 1]

\* Classes::getName through Detection::setClassName: "" when the id is out
\* of range
ClassNameOf(names, classId) ==
    IF classId >= 0 /\ classId < Len(names) THEN names[classId + 1] ELSE ""

\* a variant of MakeDetection that keeps the score as computed
MakeDetectionUnclamped(cand, t, names) ==
    [classId |-> cand.classId,
     bbox |-> transformBbox(t, cand.box),
     score |-> cand.score,
     className |-> ClassNameOf(names, cand.classId)]

MakeDetection(cand, t, names) ==
    [classId |-> cand.classId,
     bbox |-> transformBbox(t, cand.box),
     score |-> Max(0, Min(100, cand.score)),
     className |-> ClassNameOf(names, cand.classId)]

\* a variant of DecodeOutput that keeps the detections of the previous call
\* in mind and leaves out those it returned before
DecodeOutputSkipsSeen(rows, nrClasses, thr, nms, t, names) ==
    LET c == Candidates(rows, nrClasses, thr, 1)
        indices == NMSBoxes(c, thr, nms)
        seen == {out[k] : k \in 1..Len(out)}
    IN SelectSeq([k \in 1..Len(indices) |-> MakeDetection(c[indices[k]], t, names)],
                 LAMBDA det : det \notin seen)

\* the detection list of one batch slot
DecodeOutput(rows, nrClasses, thr, nms, t, names) ==
    LET c == Candidates(rows, nrClasses, thr, 1)
        indices == NMSBoxes(c, thr, nms)
    IN [k \in 1..Len(indices) |-> MakeDetection(c[indices[k]], t, names)]

\* result code of _decodeOutput for one slot
DecodeResult(rows, nrClasses, thr, nms, slot, fault) ==
    IF fault.step = "decodeAlloc" /\ fault.at = slot
       /\ Candidates(rows, nrClasses, thr, 1) # <<>>
    THEN "FAILURE_ALLOC"
    ELSE IF NMSBoxesThrows(thr, nms) \/ (fault.step = "nms" /\ fault.at = slot)
    THEN "FAILURE_OPENCV_ERROR"
    ELSE "SUCCESS"

----------------------------------------------------------------------------
(* Detector::detect and Detector::detectBatch, with _detect, _detectBatch  *)
(* and _inference.  The call runs over the record d.                       *)

\* Detector::_batchSize, Detector::_numClasses
BatchSizeOf(input) == input.dims[1]
NumClassesOf(output) == output.dims[3] - 5

DetectStart ==
    [result |-> "", trace |-> <<>>, log |-> <<>>,
     pre |-> preprocessor, host |-> outputHostMemory, lists |-> <<>>]

DetErr == <<Msg("ERROR", logger)>>

\* _preprocessor->setup(_inputBinding.dims(), flags, _batchSize(),
\*                      _deviceMemory.at(_inputBinding.index()))
DetectSetup(d, flags, fault) ==
    LET r == PreprocessorSetup(d.pre, inputBinding.dims, flags,
                               BatchSizeOf(inputBinding),
                               deviceMemory[inputBinding.index + 1], fault)
        t == [d EXCEPT !.trace = Append(d.trace, St("setup")), !.pre = r.pre]
    IN IF r.ok THEN t ELSE Fail(t, "FAILURE_OTHER", r.log \o DetErr)

\* for(i < numProcessed) _preprocessor->process(i, images[i], i == numProcessed - 1)
RECURSIVE DetectProcess(_, _, _, _, _)
DetectProcess(d, imgs, variant, fault, slot) ==
    IF d.result # "" \/ slot > Len(imgs) THEN d
    ELSE
      LET r == PreprocessorProcess(d.pre, slot, imgs[slot], variant,
                                   slot = Len(imgs), fault)
          t == [d EXCEPT !.trace = Append(d.trace, StAt("process", slot)) \o r.trace,
                         !.pre = r.pre]
      IN IF r.ok THEN DetectProcess(t, imgs, variant, fault, slot + 1)
         ELSE Fail(t, "FAILURE_OTHER", r.log \o DetErr)

\* a variant of _inference that returns once the output copy is enqueued
DetectInferenceUnsynchronized(d, fault, tensor) ==
    IF d.result # "" THEN d
    ELSE IF fault.step = "enqueue"
    THEN Fail([d EXCEPT !.trace = Append(d.trace, St("enqueue"))],
              "FAILURE_TENSORRT_ERROR", DetErr)
    ELSE IF fault.step = "d2h"
    THEN Fail([d EXCEPT !.trace = d.trace \o <<St("enqueue"), St("d2h")>>,
                        !.pre.pending = d.pre.pending \cup {"inference"}],
              "FAILURE_CUDA_ERROR", DetErr)
    ELSE [d EXCEPT !.trace = d.trace \o <<St("enqueue"), St("d2h")>>,
                   !.pre.pending = d.pre.pending \cup {"inference", "d2h"},
                   !.host.data = tensor]

\* a variant of _inference that also runs when the pre-processing failed
DetectInferenceAlways(d, fault, tensor) ==
    IF d.trace = <<>> THEN d
    ELSE [d EXCEPT !.trace = d.trace \o <<St("enqueue"), St("d2h"), St("sync")>>,
                   !.pre.pending = {},
                   !.host.data = tensor]

\* Detector::_inference: enqueueV2, cudaMemcpyAsync of the output,
\* synchronizeCudaStream; tensor is what the engine computes
DetectInference(d, fault, tensor) ==
    IF d.result # "" THEN d
    ELSE IF fault.step = "enqueue"
    THEN Fail([d EXCEPT !.trace = Append(d.trace, St("enqueue"))],
              "FAILURE_TENSORRT_ERROR", DetErr)
    ELSE IF fault.step = "d2h"
    THEN Fail([d EXCEPT !.trace = d.trace \o <<St("enqueue"), St("d2h")>>,
                        !.pre.pending = d.pre.pending \cup {"inference"}],
              "FAILURE_CUDA_ERROR", DetErr)
    ELSE IF fault.step = "sync"
    THEN Fail([d EXCEPT !.trace = d.trace \o <<St("enqueue"), St("d2h"), St("sync")>>,
                        !.pre.pending = d.pre.pending \cup {"inference", "d2h"}],
              "FAILURE_CUDA_ERROR", PreErr(d.pre))
    ELSE [d EXCEPT !.trace = d.trace \o <<St("enqueue"), St("d2h"), St("sync")>>,
                   !.pre.pending = {},
                   !.host.data = tensor]

\* for(i < nrImages) _decodeOutput(logid, i, &lst[i])
RECURSIVE DetectDecode(_, _, _, _)
DetectDecode(d, n, fault, slot) ==
    IF d.result # "" \/ slot > n THEN d
    ELSE
      LET rows == d.host.data[slot]
          nrClasses == NumClassesOf(outputBinding)
          r == DecodeResult(rows, nrClasses, scoreThreshold, nmsThreshold,
                            slot, fault)
          t == [d EXCEPT !.trace = Append(d.trace, StAt("decode", slot))]
      IN IF r # "SUCCESS" THEN Fail(t, r, DetErr)
         ELSE DetectDecode(
                [t EXCEPT !.lists = Append(d.lists,
                      DecodeOutput(rows, nrClasses, scoreThreshold, nmsThreshold,
                                   d.pre.transforms[slot], classes))],
                n, fault, slot + 1)

DetectFinish(d) == IF d.result # "" THEN d ELSE [d EXCEPT !.result = "SUCCESS"]

DetectRun(imgs, variant, flags, fault, tensor) ==
    DetectFinish(
      DetectDecode(
        DetectInference(
          DetectProcess(DetectSetup(DetectStart, flags, fault),
                        imgs, variant, fault, 1),
          fault, tensor),
        Len(imgs), fault, 1))

\* a variant of DetectPrecondition that checks the number of images before
\* the OpenCV-CUDA support
DetectPreconditionSizeFirst(imgs, variant, isBatch) ==
    IF trtEngine = "null" THEN "FAILURE_NOT_LOADED"
    ELSE IF isBatch /\ Len(imgs) = 0 THEN "FAILURE_INVALID_INPUT"
    ELSE IF isBatch /\ Len(imgs) > BatchSizeOf(inputBinding)
    THEN "FAILURE_INVALID_INPUT"
    ELSE IF variant = "gpumat" /\ ~cvCuda THEN "FAILURE_OPENCV_NO_CUDA"
    ELSE ""

\* a variant of DetectPrecondition that checks the OpenCV-CUDA support
\* before the engine
DetectPreconditionCudaFirst(imgs, variant, isBatch) ==
    IF variant = "gpumat" /\ ~cvCuda THEN "FAILURE_OPENCV_NO_CUDA"
    ELSE IF trtEngine = "null" THEN "FAILURE_NOT_LOADED"
    ELSE IF isBatch /\ Len(imgs) = 0 THEN "FAILURE_INVALID_INPUT"
    ELSE IF isBatch /\ Len(imgs) > BatchSizeOf(inputBinding)
    THEN "FAILURE_INVALID_INPUT"
    ELSE ""

\* the checks detect / detectBatch make before any pre-processing: the
\* failure code, or "" when the call goes on
DetectPrecondition(imgs, variant, isBatch) ==
    IF trtEngine = "null" THEN "FAILURE_NOT_LOADED"
    ELSE IF variant = "gpumat" /\ ~cvCuda THEN "FAILURE_OPENCV_NO_CUDA"
    ELSE IF isBatch /\ Len(imgs) = 0 THEN "FAILURE_INVALID_INPUT"
    ELSE IF isBatch /\ Len(imgs) > BatchSizeOf(inputBinding)
    THEN "FAILURE_INVALID_INPUT"
    ELSE ""

DetectArgs(in) ==
    [flags |-> in.flags, variant |-> in.variant, n |-> Len(in.imgs),
     outNull |-> in.outNull]

\* what the engine writes to the output binding: tensors of each engine's
\* output shape, the call's environment picks one.  A row is centre x,
\* centre y, width, height, objectness and the class scores.
Row2(o, c1, c2) == <<2, 2, 2, 2, o, c1, c2>>
RowAt(cx, cy, w, h, o, c1, c2) == <<cx, cy, w, h, o, c1, c2>>
RowZ(cx, cy, o) == <<cx, cy, 2, 2, o>>
Row1(o, c1) == <<2, 2, 2, 2, o, c1>>

OutputTensors(e) ==
    IF e \in {"A", "mono"}
    THEN << << <<Row2(9, 8, 3), Row2(8, 2, 9)>> >>,
            << <<Row2(3, 9, 9), Row2(10, 4, 4)>> >>,
            << <<RowAt(1, 1, 2, 2, 9, 8, 3), RowAt(2, 1, 2, 2, 8, 2, 9)>> >>,
            << <<RowAt(1, 1, 2, 2, 5, 8, 8), RowAt(2, 2, 2, 2, 4, 0, 0)>> >>,
            << <<RowAt(1, 1, 2, 2, 10, 5, 10), RowAt(1, 1, 2, 2, 10, 10, 5)>> >>,
            << <<RowAt(1, 1, 2, 1, 6, 9, 10), RowAt(1, 1, 2, 2, 9, 8, 3)>> >>,
            << <<RowAt(1, 1, 2, 2, 12, 11, -3), RowAt(2, 2, 2, 2, 10, -2, -1)>> >> >>
    ELSE IF e = "Z"
    THEN [k \in 1..7 |-> << <<RowZ(1, 1, 2 * k - 2), RowZ(2, 2, 10)>> >>]
    ELSE << << <<Row1(9, 8), Row1(5, 8)>>, <<Row1(3, 9), Row1(10, 10)>> >>,
            << <<Row1(10, 4), Row1(0, 0)>>, <<Row1(9, 9), Row1(9, 9)>> >> >>

\* a variant of DetectOut that decodes into the caller's container as it
\* goes instead of a local list
DetectOutDirect(d, outNull, isBatch) ==
    IF outNull THEN (IF isBatch THEN outBatch ELSE out)
    ELSE IF isBatch THEN d.lists
    ELSE IF d.lists = <<>> THEN <<>> ELSE d.lists[1]

\* a variant of DetectOut that adds the lists of this call to the content
\* of the caller's container
DetectOutAppended(d, outNull, isBatch) ==
    IF d.result = "SUCCESS" /\ ~outNull
    THEN (IF isBatch THEN outBatch \o d.lists ELSE out \o d.lists[1])
    ELSE (IF isBatch THEN outBatch ELSE out)

\* the caller's container after _detect / _detectBatch:
\* if(out != nullptr) std::swap(lst, *out), reached on success only
DetectOut(d, outNull, isBatch) ==
    IF d.result = "SUCCESS" /\ ~outNull
    THEN (IF isBatch THEN d.lists ELSE d.lists[1])
    ELSE (IF isBatch THEN outBatch ELSE out)

DetectCall(in, isBatch) ==
    LET pre == DetectPrecondition(in.imgs, in.variant, isBatch)
        op == IF isBatch THEN "detectBatch" ELSE "detect"
    IN
    IF pre # ""
    THEN /\ last' = Call(op, DetectArgs(in), pre, <<>>,
                         IF logger # 0 THEN DetErr ELSE <<>>)
         /\ UNCHANGED <<preprocessor, outputHostMemory, out, outBatch>>
    ELSE \E d \in {DetectRun(in.imgs, in.variant, in.flags, in.fault,
                              OutputTensors(trtEngine)[in.tensor])} :
           /\ preprocessor' = d.pre
           /\ outputHostMemory' = d.host
           /\ out' = IF isBatch THEN out ELSE DetectOut(d, in.outNull, FALSE)
           /\ outBatch' = IF isBatch THEN DetectOut(d, in.outNull, TRUE)
                          ELSE outBatch
           /\ last' = Call(op, DetectArgs(in), d.result, d.trace, d.log)

DetectorDetect(inputs) ==
    /\ \E in \in inputs : Len(in.imgs) = 1 /\ DetectCall(in, FALSE)
    /\ UNCHANGED <<userClasses, cvCuda, initialized, logger, trtLogger, trtRuntime,
                   trtEngine, trtExecutionContext, inputBinding, outputBinding,
                   deviceMemory, heap, scoreThreshold, nmsThreshold, classes,
                   created>>

DetectorDetectBatch(inputs) ==
    /\ \E in \in inputs : DetectCall(in, TRUE)
    /\ UNCHANGED <<userClasses, cvCuda, initialized, logger, trtLogger, trtRuntime,
                   trtEngine, trtExecutionContext, inputBinding, outputBinding,
                   deviceMemory, heap, scoreThreshold, nmsThreshold, classes,
                   created>>

----------------------------------------------------------------------------
(* Detector::setClasses: names is the list held by the Classes argument    *)

\* a variant of setClasses that asks for a loaded engine first
DetectorSetClassesLoadedOnly(inputs) ==
    \E names \in inputs :
      \E code \in {IF trtEngine = "null" THEN "FAILURE_NOT_LOADED"
                   ELSE IF Len(names) = 0 THEN "FAILURE_INVALID_INPUT"
                   ELSE "SUCCESS"} :
        /\ classes' = IF code = "SUCCESS" THEN names ELSE classes
        /\ last' = Call("setClasses", [flags |-> 0, names |-> names], code,
                        <<>>,
                        IF code # "SUCCESS" /\ logger # 0 THEN DetErr ELSE <<>>)
        /\ UNCHANGED <<userClasses, cvCuda, initialized, logger, trtLogger,
                       trtRuntime, preprocessor, trtEngine,
                       trtExecutionContext, inputBinding, outputBinding,
                       deviceMemory, heap, outputHostMemory, scoreThreshold,
                       nmsThreshold, created, out, outBatch>>

DetectorSetClasses(inputs) ==
    \E names \in inputs :
      /\ classes' = IF Len(names) = 0 THEN classes ELSE names
      /\ last' = Call("setClasses", [flags |-> 0, names |-> names],
                      IF Len(names) = 0 THEN "FAILURE_INVALID_INPUT" ELSE "SUCCESS",
                      <<>>,
                      IF Len(names) = 0 /\ logger # 0 THEN DetErr ELSE <<>>)
      /\ UNCHANGED <<userClasses, cvCuda, initialized, logger, trtLogger, trtRuntime,
                     preprocessor, trtEngine, trtExecutionContext,
                     inputBinding, outputBinding, deviceMemory, heap,
                     outputHostMemory, scoreThreshold, nmsThreshold,
                     created, out, outBatch>>

----------------------------------------------------------------------------
(* Detector::batchSize, numClasses, inferenceSize                          *)

isEngineLoaded == trtEngine # "null"

\* Detector::batchSize: the value returned
batchSize == IF ~isEngineLoaded THEN 0 ELSE BatchSizeOf(inputBinding)

\* a variant of numClasses that returns the length of an output row
numClassesRowSize == IF ~isEngineLoaded THEN 0 ELSE outputBinding.dims[3]

\* Detector::numClasses: the value returned
numClasses == IF ~isEngineLoaded THEN 0 ELSE NumClassesOf(outputBinding)

\* Detector::inferenceSize: cv::Size(cols, rows)
inferenceSize ==
    IF ~isEngineLoaded THEN [width |-> 0, height |-> 0]
    ELSE [width |-> inputBinding.dims[4], height |-> inputBinding.dims[3]]

\* one of the three queries; each logs when no engine is loaded and a
\* logger is set
DetectorQuery(inputs) ==
    /\ \E q \in inputs :
         last' = Call(q, NoArgs,
                      CASE q = "batchSize" -> batchSize
                        [] q = "numClasses" -> numClasses
                        [] q = "inferenceSize" -> inferenceSize,
                      <<>>,
                      IF ~isEngineLoaded /\ logger # 0 THEN DetErr ELSE <<>>)
    /\ UNCHANGED <<userClasses, cvCuda, initialized, logger, trtLogger,
                   trtRuntime, preprocessor, trtEngine, trtExecutionContext,
                   inputBinding, outputBinding, deviceMemory, heap,
                   outputHostMemory, scoreThreshold, nmsThreshold, classes,
                   created, out, outBatch>>

----------------------------------------------------------------------------
(* The Classes object: load, loadFromFile, isLoaded, getName, setLogger     *)

ClsErr == IF userClasses.logger # 0
          THEN <<Msg("ERROR", userClasses.logger)>> ELSE <<>>
ClsInfo == IF userClasses.logger # 0
           THEN <<Msg("INFO", userClasses.logger)>> ELSE <<>>

\* Classes::isLoaded
isLoaded(names) == Len(names) > 0

\* Classes::load(names): result, the lists _names can hold afterwards (the
\* copy assignment that throws leaves the old list or none), messages
ClassesLoadRun(names, fault) ==
    IF Len(names) = 0 /\ userClasses.logger # 0
    THEN [result |-> "FAILURE_INVALID_INPUT", names |-> {userClasses.names},
          log |-> ClsErr]
    ELSE IF fault = "alloc"
    THEN [result |-> "FAILURE_ALLOC", names |-> {userClasses.names, <<>>},
          log |-> ClsErr]
    ELSE [result |-> "SUCCESS", names |-> {names}, log |-> ClsInfo]

ClassesLoad(inputs) ==
    /\ \E in \in inputs :
         \E r \in {ClassesLoadRun(in.names, in.fault)} :
           \E held \in r.names :
             /\ userClasses' = [userClasses EXCEPT !.names = held]
             /\ last' = Call("Classes::load", [flags |-> 0, names |-> in.names],
                             r.result, <<>>, r.log)
    /\ UNCHANGED <<cvCuda, initialized, logger, trtLogger, trtRuntime,
                   preprocessor, trtEngine, trtExecutionContext, inputBinding,
                   outputBinding, deviceMemory, heap, outputHostMemory,
                   scoreThreshold, nmsThreshold, classes, created, out, outBatch>>

\* while(std::getline(file, line)) if(line.length() > 0) names.push_back(line)
NonEmptyLines(lines) == SelectSeq(lines, LAMBDA line : line # "")

\* Classes::loadFromFile(filepath): the file is [good, lines]
ClassesLoadFromFileRun(file, fault) ==
    LET names == NonEmptyLines(file.lines)
    IN IF ~file.good
       THEN [result |-> "FAILURE_FILESYSTEM_ERROR", names |-> userClasses.names,
             log |-> ClsErr]
       ELSE IF fault = "alloc" /\ names # <<>>
       THEN [result |-> "FAILURE_ALLOC", names |-> userClasses.names,
             log |-> ClsErr]
       ELSE IF Len(names) = 0
       THEN [result |-> "FAILURE_OTHER", names |-> userClasses.names,
             log |-> ClsErr]
       ELSE [result |-> "SUCCESS", names |-> names, log |-> ClsInfo]

ClassesLoadFromFile(inputs) ==
    /\ \E in \in inputs :
         \E r \in {ClassesLoadFromFileRun(in.file, in.fault)} :
           /\ userClasses' = [userClasses EXCEPT !.names = r.names]
           /\ last' = Call("Classes::loadFromFile",
                           [flags |-> 0, file |-> in.file], r.result, <<>>, r.log)
    /\ UNCHANGED <<cvCuda, initialized, logger, trtLogger, trtRuntime,
                   preprocessor, trtEngine, trtExecutionContext, inputBinding,
                   outputBinding, deviceMemory, heap, outputHostMemory,
                   scoreThreshold, nmsThreshold, classes, created, out, outBatch>>

\* Classes::getName(classId, out): the result code and the caller's string,
\* which held "before"
getName(names, classId, outNull, before) ==
    IF classId >= Len(names) \/ classId < 0
    THEN [code |-> "FAILURE_INVALID_INPUT", out |-> before]
    ELSE [code |-> "SUCCESS",
          out |-> IF outNull THEN before ELSE names[classId + 1]]

ClassesGetName(inputs) ==
    /\ \E in \in inputs :
         \E r \in {getName(userClasses.names, in.classId, in.outNull, in.before)} :
           last' = Call("Classes::getName",
                        [flags |-> 0, classId |-> in.classId,
                         outNull |-> in.outNull, before |-> in.before],
                        r, <<>>,
                        IF r.code = "SUCCESS" THEN <<>> ELSE ClsErr)
    /\ UNCHANGED <<userClasses, cvCuda, initialized, logger, trtLogger,
                   trtRuntime, preprocessor, trtEngine, trtExecutionContext,
                   inputBinding, outputBinding, deviceMemory, heap,
                   outputHostMemory, scoreThreshold, nmsThreshold, classes,
                   created, out, outBatch>>

\* Classes::setLogger(logger)
ClassesSetLogger(inputs) ==
    /\ \E l \in inputs :
         /\ userClasses' = [userClasses EXCEPT !.logger = l]
         /\ last' = Call("Classes::setLogger", [flags |-> 0, logger |-> l],
                         "SUCCESS", <<>>, <<>>)
    /\ UNCHANGED <<cvCuda, initialized, logger, trtLogger, trtRuntime,
                   preprocessor, trtEngine, trtExecutionContext, inputBinding,
                   outputBinding, deviceMemory, heap, outputHostMemory,
                   scoreThreshold, nmsThreshold, classes, created, out, outBatch>>

----------------------------------------------------------------------------
(* The arguments and environment faults the operations are called with.    *)
(* "All" sets enumerate every case of an operation, "Basic" sets a few     *)
(* representative calls; each specification below takes the full set for   *)
(* the operations it is about and the basic set for the others.            *)

InitIn(flags, fault) == [flags |-> flags, fault |-> fault]

InitFlags == {0, PREPROCESSOR_CVCUDA, PREPROCESSOR_CVCPU,
              PREPROCESSOR_CVCUDA + PREPROCESSOR_CVCPU}

InitFaults == {"none", "logger", "trtLogger", "preprocessor", "runtime"}

\* Detector::~Detector: the members are destroyed, _deviceMemory frees its
\* buffers.  The step ends with a new detector constructed in its place; the
\* device heap, the OpenCV build and the caller's Classes object stay.
DetectorDestroy ==
    /\ heap' = DeviceMemoryFree(heap, deviceMemory)
    /\ deviceMemory' = <<>>
    /\ initialized' = FALSE
    /\ logger' = 0
    /\ trtLogger' = [set |-> FALSE, target |-> 0]
    /\ trtRuntime' = 0
    /\ preprocessor' = NoPreprocessor
    /\ trtEngine' = "null"
    /\ trtExecutionContext' = "null"
    /\ inputBinding' = NoBinding
    /\ outputBinding' = NoBinding
    /\ outputHostMemory' = [size |-> 0, data |-> <<>>]
    /\ scoreThreshold' = DefaultThreshold
    /\ nmsThreshold' = DefaultThreshold
    /\ classes' = <<>>
    /\ last' = Call("destroy", NoArgs, "", <<>>, <<>>)
    /\ UNCHANGED <<userClasses, cvCuda, created, out, outBatch>>

InitInputsAll == {InitIn(f, x) : f \in InitFlags, x \in InitFaults}

InitInputsBasic == {InitIn(0, "none"), InitIn(PREPROCESSOR_CVCPU, "none"),
                    InitIn(0, "runtime")}

InitInputsDefault == {InitIn(0, "none")}

\* setLogger(nullptr) and the caller's loggers
LoggerInputs == {0} \cup 2..(1 + MaxLoggers)

\* the doubles a caller passes: below 0, 0, 1, above 1, NaN
ThresholdInputsAll == {-1, 0, 10, 11, NaN}

ThresholdInputsBasic == {11}

LoadIn(src, blob, step, at) ==
    [src |-> src, blob |-> blob, fault |-> [step |-> step, at |-> at]]

LoadInputsAll ==
    {LoadIn("bytes", b, "none", 0) : b \in BlobNames \ {"Z", "mono"}}
    \cup {LoadIn("path", b, "none", 0) : b \in {"A", "corrupt"}}
    \cup {LoadIn("path", "A", st, 0) : st \in {"open", "read"}}
    \cup {LoadIn("bytes", "inDyn", "context", 0)}
    \cup {LoadIn("bytes", b, st, 0) :
            b \in {"A", "B"},
            st \in {"deserialize", "context", "inputName", "outputName",
                    "hostalloc"}}
    \cup UNION {{LoadIn("bytes", b, st, k) : k \in 1..getNbBindings(b)} :
                  b \in {"A", "B"}, st \in {"push_back", "cudaMalloc"}}

LoadInputsBasic == {LoadIn("bytes", "A", "none", 0),
                    LoadIn("bytes", "corrupt", "none", 0)}

LoadInputsValid == {LoadIn("bytes", "A", "none", 0),
                    LoadIn("bytes", "B", "none", 0)}

LoadInputsBatch == {LoadIn("bytes", "B", "none", 0)}

Image(cols, rows) == [cols |-> cols, rows |-> rows]

\* an image of the network size of engine A, and one of engine B
SmallImage == Image(2, 2)
WideImage == Image(4, 2)

DetIn(variant, imgs, flags, outNull, step, at, ub, tensor) ==
    [variant |-> variant, imgs |-> imgs, flags |-> flags, outNull |-> outNull,
     fault |-> [step |-> step, at |-> at, ub |-> ub], tensor |-> tensor]

DetectFaultSteps ==
    {<<"stream", 0>>, <<"setupAlloc", 0>>, <<"h2d", 0>>, <<"enqueue", 0>>,
     <<"d2h", 0>>, <<"sync", 0>>}
    \cup {<<st, k>> : st \in {"transformsAlloc", "upload", "process",
                              "decodeAlloc", "nms"}, k \in 1..2}
    \cup {<<"presync", 2>>}

\* every kind of argument list, in an environment without faults
DetectInputsArgs ==
    {DetIn(v, imgs, f, FALSE, "none", 0, "returns", 1) :
        v \in {"mat", "gpumat"},
        imgs \in {<<>>, <<SmallImage>>, <<SmallImage, WideImage>>,
                  <<SmallImage, SmallImage, SmallImage>>},
        f \in {0, INPUT_RGB + INPUT_BGR}}

\* a call that succeeds, and one for every stage an environment fault can
\* stop
DetectInputsFaults ==
    {DetIn("mat", <<SmallImage>>, 0, FALSE, "none", 0, "returns", 1),
     DetIn("mat", <<SmallImage, WideImage>>, 0, FALSE, "none", 0, "returns", 1),
     DetIn("gpumat", <<SmallImage>>, 0, FALSE, "none", 0, "returns", 1),
     DetIn("mat", <<SmallImage>>, 0, TRUE, "none", 0, "returns", 2),
     DetIn("mat", <<SmallImage>>, 0, FALSE, "none", 0, "throws", 1)}
    \cup {DetIn("mat", <<SmallImage>>, 0, FALSE, x[1], x[2], "returns", 1) :
            x \in {y \in DetectFaultSteps : y[2] < 2}}
    \cup {DetIn("mat", <<SmallImage, WideImage>>, 0, FALSE, x[1], x[2],
                "returns", 1) :
            x \in {y \in DetectFaultSteps : y[2] = 2}}

DetectInputsBasic ==
    {DetIn("mat", <<SmallImage>>, 0, FALSE, "none", 0, "returns", 1)}

ClassesInputs == {<<>>, <<"person", "car">>}

\* no table (a Classes object that is not loaded), a table shorter than the
\* classes of engine A, and one of its length
ClassesInputsAll == {<<>>, <<"person">>, <<"person", "car">>}

\* an engine with two classes and one without classes
LoadInputsClasses == {LoadIn("bytes", "A", "none", 0),
                      LoadIn("bytes", "Z", "none", 0)}

\* one image with each output tensor
DetectInputsClasses ==
    {DetIn("mat", <<SmallImage>>, 0, FALSE, "none", 0, "returns", k) :
        k \in 1..7}

\* lists and files for a Classes object: none, blank lines only, names
ClassesLoadInputs ==
    {[names |-> n, fault |-> x] :
        n \in {<<>>, <<"person">>, <<"person", "car">>}, x \in {"none", "alloc"}}

ClassesFileInputs ==
    {[file |-> [good |-> g, lines |-> l], fault |-> x] :
        g \in BOOLEAN, x \in {"none", "alloc"},
        l \in {<<>>, <<"", "">>, <<"car">>, <<"", "car", "", "person">>}}

ClassesGetNameInputs ==
    {[classId |-> i, outNull |-> n, before |-> b] :
        i \in {-1, 0, 1, 2}, n \in BOOLEAN, b \in {"", "old"}}

ClassesGetNameInputsBasic ==
    {[classId |-> i, outNull |-> FALSE, before |-> "old"] : i \in {-1, 1, 2}}

QueryInputs == {"batchSize", "numClasses", "inferenceSize"}

\* engines of one and two images, of two, one and no classes, and a blob
\* that does not load
LoadInputsQuery == {LoadIn("bytes", b, "none", 0) : b \in {"A", "B", "Z", "corrupt"}}

\* calls of one and two images that run to their end, and one for a failure
\* of each stage
DetectInputsStages ==
    {DetIn("mat", imgs, 0, FALSE, "none", 0, "returns", 1) :
        imgs \in {<<SmallImage>>, <<SmallImage, WideImage>>}}
    \cup {DetIn("mat", <<SmallImage, WideImage>>, 0, FALSE, x[1], x[2],
                "returns", 1) :
            x \in {<<"setupAlloc", 0>>, <<"process", 1>>, <<"process", 2>>,
                   <<"h2d", 0>>, <<"enqueue", 0>>, <<"d2h", 0>>, <<"sync", 0>>,
                   <<"nms", 1>>, <<"decodeAlloc", 2>>}}

SetupFault(step) == [step |-> step, at |-> 0, ub |-> "returns"]

\* setup for two networks of two images and one of one image, with each
\* colour order (none = BGR) and both, two device pointers, and with the
\* allocation of the channels failing
SetupInputsAll ==
    {[dims |-> d, flags |-> f, memory |-> m, fault |-> SetupFault(x)] :
        d \in {<<2, 3, 4, 6>>, <<2, 3, 2, 2>>, <<1, 3, 4, 6>>},
        f \in {0, INPUT_RGB, INPUT_BGR, INPUT_RGB + INPUT_BGR},
        m \in 1..2, x \in {"none", "setupAlloc"}}

\* thresholds for the decoding: 0, 0.5 and 1 (the default is 0.4)
ThresholdInputsDecode == {0, 5, 10}

LoadInputsDecode == {LoadIn("bytes", "A", "none", 0)}

\* one image of the network size or of another size, with each output
\* tensor of engine A
DetectInputsDecode ==
    {DetIn("mat", <<img>>, 0, FALSE, "none", 0, "returns", k) :
        img \in {SmallImage, WideImage}, k \in 1..6}

\* one or two images in either order, with each output tensor of engine B,
\* in an environment without faults
DetectInputsBatch ==
    {DetIn("mat", imgs, 0, FALSE, "none", 0, "returns", k) :
        imgs \in {<<SmallImage>>, <<WideImage>>, <<SmallImage, WideImage>>,
                  <<WideImage, SmallImage>>},
        k \in 1..2}

\* network inputs of 6 x 4 (batch of 2) and of 640 x 640
SetupInputs == {<<2, 3, 4, 6>>, <<1, 3, 640, 640>>}

\* images of the size of the first network, narrower, smaller, of one pixel,
\* and a 1280 x 720 frame
ProcessImages ==
    {Image(6, 4), Image(4, 6), Image(3, 3), Image(1, 1), Image(1280, 720)}

ProcessInputs ==
    {[slot |-> s, img |-> img, variant |-> v] :
        s \in 1..2, img \in ProcessImages, v \in {"mat"}}

\* network-space boxes: left of, above, inside, across and beyond the input,
\* empty and large
BboxInputs ==
    {[slot |-> s, bbox |-> Rect(x, y, w, h)] :
        s \in 1..2, x \in {-2, 3, 9}, y \in {-1, 2, 7}, w \in {0, 2, 8},
        h \in {1, 9}}
    \cup {[slot |-> 1, bbox |-> Rect(300, 160, 40, 40)]}

----------------------------------------------------------------------------
(* Specifications.  Each one lets the operations it is about be called     *)
(* with all their inputs, in any order and any number of times, together   *)
(* with basic calls of the operations they depend on.                      *)

\* initialization, loggers
NextInit ==
    \/ DetectorInit(InitInputsAll)
    \/ DetectorSetLogger(LoggerInputs)
    \/ DetectorLoadEngine(LoadInputsBasic)
    \/ DetectorDetect(DetectInputsBasic)

SpecInit == Init /\ [][NextInit]_vars

\* engine loading
NextLoad ==
    \/ DetectorInit(InitInputsBasic)
    \/ DetectorLoadEngine(LoadInputsAll)
    \/ DetectorDetect(DetectInputsBasic)
    \/ DetectorDetectBatch(DetectInputsBasic)

SpecLoad == Init /\ [][NextLoad]_vars

\* detection: every argument list
NextDetect ==
    \/ DetectorInit(InitInputsBasic)
    \/ DetectorLoadEngine(LoadInputsValid)
    \/ DetectorDetect(DetectInputsArgs)
    \/ DetectorDetectBatch(DetectInputsArgs)

SpecDetect == Init /\ [][NextDetect]_vars

\* detection: every stage failing
NextDetectFaults ==
    \/ DetectorInit(InitInputsDefault)
    \/ DetectorLoadEngine(LoadInputsBatch)
    \/ DetectorDetect(DetectInputsFaults)
    \/ DetectorDetectBatch(DetectInputsFaults)

SpecDetectFaults == Init /\ [][NextDetectFaults]_vars

\* detection parameters
NextThreshold ==
    \/ DetectorInit(InitInputsBasic)
    \/ DetectorSetScoreThreshold(ThresholdInputsAll)
    \/ DetectorSetNmsThreshold(ThresholdInputsAll)
    \/ DetectorSetClasses(ClassesInputs)
    \/ DetectorLoadEngine(LoadInputsBasic)
    \/ DetectorDetect(DetectInputsBasic)

SpecThreshold == Init /\ [][NextThreshold]_vars

\* decoding of the output tensor
NextDecode ==
    \/ DetectorInit(InitInputsDefault)
    \/ DetectorLoadEngine(LoadInputsDecode)
    \/ DetectorSetScoreThreshold(ThresholdInputsDecode)
    \/ DetectorSetNmsThreshold(ThresholdInputsDecode)
    \/ DetectorDetect(DetectInputsDecode)

SpecDecode == Init /\ [][NextDecode]_vars

\* class ids, scores and class names of the detections
NextClasses ==
    \/ DetectorInit(InitInputsDefault)
    \/ DetectorLoadEngine(LoadInputsClasses)
    \/ DetectorSetClasses(ClassesInputsAll)
    \/ DetectorSetScoreThreshold({0})
    \/ DetectorDetect(DetectInputsClasses)
    \/ ClassesLoad({[names |-> <<"person", "car">>, fault |-> "none"]})
    \/ ClassesGetName(ClassesGetNameInputsBasic)

SpecClasses == Init /\ [][NextClasses]_vars

\* a Classes object on its own
NextClassesObject ==
    \/ ClassesSetLogger({0, 1})
    \/ ClassesLoad(ClassesLoadInputs)
    \/ ClassesLoadFromFile(ClassesFileInputs)
    \/ ClassesGetName(ClassesGetNameInputs)

SpecClassesObject == Init /\ [][NextClassesObject]_vars

\* the queries of the loaded model
NextQuery ==
    \/ DetectorInit(InitInputsDefault)
    \/ DetectorSetLogger(LoggerInputs)
    \/ DetectorLoadEngine(LoadInputsQuery)
    \/ DetectorQuery(QueryInputs)

SpecQuery == Init /\ [][NextQuery]_vars

\* the stages of a call
NextStages ==
    \/ DetectorInit(InitInputsDefault)
    \/ DetectorLoadEngine(LoadInputsBatch)
    \/ DetectorDetect(DetectInputsStages)
    \/ DetectorDetectBatch(DetectInputsStages)

SpecStages == Init /\ [][NextStages]_vars

\* the configuration of the pre-processor
NextSetup ==
    \/ DetectorInit(InitInputsDefault)
    \/ PreprocessorSetupWith(SetupInputsAll)
    \/ PreprocessorReset

SpecSetup == Init /\ [][NextSetup]_vars

\* loads that succeed, loads that fail before, in and after the device
\* allocations (the second and third buffer included), and loads that find
\* the device full
LoadInputsMemory ==
    {LoadIn("bytes", b, "none", 0) : b \in {"A", "B", "corrupt"}}
    \cup {LoadIn("bytes", b, st, i) :
            b \in {"A", "B"}, st \in {"push_back", "cudaMalloc"}, i \in 1..3}
    \cup {LoadIn("bytes", b, "hostalloc", 0) : b \in {"A", "B"}}

NextMemory ==
    \/ DetectorInit(InitInputsDefault)
    \/ DetectorLoadEngine(LoadInputsMemory)
    \/ DetectorDestroy

SpecMemory == Init /\ [][NextMemory]_vars

\* calls of one and two images of either size that run to their end, and
\* calls of two images that fail in the first or second image or in the
\* inference
DetectInputsSlots ==
    DetectInputsBatch
    \cup {DetIn("mat", imgs, 0, FALSE, x[1], x[2], "returns", 1) :
            imgs \in {<<SmallImage, WideImage>>, <<WideImage, SmallImage>>},
            x \in {<<"process", 1>>, <<"process", 2>>, <<"enqueue", 0>>}}

NextSlots ==
    \/ DetectorInit(InitInputsDefault)
    \/ DetectorLoadEngine(LoadInputsBatch)
    \/ DetectorDetect(DetectInputsSlots)
    \/ DetectorDetectBatch(DetectInputsSlots)

SpecSlots == Init /\ [][NextSlots]_vars

\* engines with three input channels and with one
LoadInputsBounds == {LoadIn("bytes", b, "none", 0) : b \in {"A", "mono"}}

\* one image of either size, with either outcome of an undefined access
DetectInputsBounds ==
    {DetIn("mat", <<img>>, 0, FALSE, "none", 0, ub, k) :
        img \in {SmallImage, WideImage}, ub \in {"returns", "throws"},
        k \in 1..3}

NextBounds ==
    \/ DetectorInit(InitInputsDefault)
    \/ DetectorLoadEngine(LoadInputsBounds)
    \/ DetectorDetect(DetectInputsBounds)
    \/ DetectorDetectBatch(DetectInputsBounds)

SpecBounds == Init /\ [][NextBounds]_vars

\* the lists a batch returns
NextBatch ==
    \/ DetectorInit(InitInputsDefault)
    \/ DetectorLoadEngine(LoadInputsBatch)
    \/ DetectorDetect(DetectInputsBatch)
    \/ DetectorDetectBatch(DetectInputsBatch)

SpecBatch == Init /\ [][NextBatch]_vars

\* the geometric transform of the pre-processing and its inversion
NextTransform ==
    \/ DetectorInit(InitInputsDefault)
    \/ PreprocessorSetupCall(SetupInputs)
    \/ PreprocessorProcessCall(ProcessInputs)
    \/ PreprocessorTransformBbox(BboxInputs)

SpecTransform == Init /\ [][NextTransform]_vars

----------------------------------------------------------------------------
(* Properties.  A step of an operation is recognised by last'.op, the      *)
(* operation the step records.                                             *)

\* C1: a loadEngine call that returns a code other than RESULT_SUCCESS,
\* whatever the stage that failed, leaves the live engine, execution
\* context, bindings, device memory set (and the device heap), host output
\* buffer and pre-processor exactly as they were; so does every other field
\* a following detect reads, and isEngineLoaded() keeps its value.
C1_FailedLoadHasNoEffect ==
    [][(last'.op = "loadEngine" /\ last'.result # "SUCCESS")
        => /\ UNCHANGED <<trtEngine, trtExecutionContext, inputBinding,
                          outputBinding, deviceMemory, heap, outputHostMemory,
                          preprocessor>>
           /\ UNCHANGED <<userClasses, cvCuda, initialized, logger, trtLogger, trtRuntime,
                          scoreThreshold, nmsThreshold, classes, created, out,
                          outBatch>>
           /\ (trtEngine' # "null") = (trtEngine # "null")]_vars

\* a load that failed at the allocation of the host output buffer, its
\* last stage, while an engine was loaded
C1_Witness ==
    /\ last.op = "loadEngine"
    /\ last.result = "FAILURE_ALLOC"
    /\ St("hostmemory") \in Range(last.trace)
    /\ trtEngine # "null"

\* C2: a detect or detectBatch call that returns a code other than
\* RESULT_SUCCESS leaves both output containers of the caller exactly as
\* they were: no list, and no list of only some images of a batch, is
\* written.
C2_FailedDetectLeavesOutput ==
    [][(last'.op \in {"detect", "detectBatch"} /\ last'.result # "SUCCESS")
        => UNCHANGED <<out, outBatch>>]_vars

\* a batch whose second image failed to decode after the first one was
\* decoded, the caller's container holding the lists of an earlier call
C2_Witness ==
    /\ last.op = "detectBatch"
    /\ last.result # "SUCCESS"
    /\ StAt("decode", 2) \in Range(last.trace)
    /\ Len(outBatch) = 2

\* C3 (as stated): detectBatch with an engine loaded and no image, or more
\* images than the batch size, returns RESULT_FAILURE_INVALID_INPUT.
C3_AsStated ==
    (/\ last.op = "detectBatch"
     /\ trtEngine # "null"
     /\ (last.args.n = 0 \/ last.args.n > inputBinding.dims[1]))
    => last.result = "FAILURE_INVALID_INPUT"

\* C3 (amended): detectBatch with an engine loaded and no image, or more
\* images than the batch size, starts no pre-processing or inference and
\* leaves the output untouched; it returns RESULT_FAILURE_INVALID_INPUT,
\* except that the device-image variant returns
\* RESULT_FAILURE_OPENCV_NO_CUDA when OpenCV has no CUDA support, a check it
\* makes before it counts the images.
C3_BadCountRejected ==
    [][(/\ last'.op = "detectBatch"
        /\ trtEngine # "null"
        /\ (last'.args.n = 0 \/ last'.args.n > inputBinding.dims[1]))
        => /\ last'.result =
                IF last'.args.variant = "gpumat" /\ ~cvCuda
                THEN "FAILURE_OPENCV_NO_CUDA" ELSE "FAILURE_INVALID_INPUT"
           /\ last'.trace = <<>>
           /\ UNCHANGED <<out, outBatch, preprocessor, outputHostMemory>>]_vars

\* three images given to an engine of batch size 2
C3_Witness ==
    /\ last.op = "detectBatch"
    /\ trtEngine # "null"
    /\ inputBinding.dims[1] = 2
    /\ last.args.n = 3
    /\ last.result = "FAILURE_INVALID_INPUT"

\* C4: detect and detectBatch, host-image and device-image variants, called
\* with no engine loaded return RESULT_FAILURE_NOT_LOADED whatever the other
\* arguments (no image, too many images, both colour flags, no OpenCV-CUDA
\* support), start no pre-processing or inference and leave the output
\* untouched.
C4_NotLoadedCheckedFirst ==
    [][(last'.op \in {"detect", "detectBatch"} /\ trtEngine = "null")
        => /\ last'.result = "FAILURE_NOT_LOADED"
           /\ last'.trace = <<>>
           /\ UNCHANGED <<out, outBatch, preprocessor, outputHostMemory>>]_vars

\* the device-image detectBatch called with no engine, no image, both
\* colour flags and no OpenCV-CUDA support: every other check would fail too
C4_Witness ==
    /\ last.op = "detectBatch"
    /\ last.result = "FAILURE_NOT_LOADED"
    /\ last.args.variant = "gpumat"
    /\ last.args.n = 0
    /\ last.args.flags = INPUT_RGB + INPUT_BGR
    /\ ~cvCuda
    /\ initialized

\* C5: loadEngine called while init has not completed successfully returns
\* RESULT_FAILURE_NOT_INITIALIZED, runs no stage (no file is opened, the
\* runtime is not called) and changes no field of the detector, also after
\* an init call that failed part-way.
C5_LoadRequiresInit ==
    [][(last'.op = "loadEngine" /\ ~initialized)
        => /\ last'.result = "FAILURE_NOT_INITIALIZED"
           /\ last'.trace = <<>>
           /\ UNCHANGED <<userClasses, cvCuda, initialized, logger, trtLogger, trtRuntime,
                          preprocessor, trtEngine, trtExecutionContext,
                          inputBinding, outputBinding, deviceMemory, heap,
                          outputHostMemory, scoreThreshold, nmsThreshold,
                          classes, created, out, outBatch>>]_vars

\* loadEngine refused after an init that created the logger, the TensorRT
\* logger and the pre-processor and then failed to create the runtime
C5_Witness ==
    /\ last.op = "loadEngine"
    /\ last.result = "FAILURE_NOT_INITIALIZED"
    /\ logger # 0
    /\ preprocessor.kind # "null"
    /\ trtRuntime = 0

\* C6: whenever an engine is loaded, the device memory set holds one buffer
\* per binding of that engine, in binding order, each a distinct allocation
\* of the binding's volume times 4 bytes, and nothing else is allocated; the
\* host output buffer has the output binding's volume; context, bindings,
\* device memory and host buffer are those of the loaded engine.
C6_AllocationsMatchEngine ==
    trtEngine # "null" =>
      /\ trtExecutionContext = trtEngine
      /\ inputBinding = EngineBindingSetup(trtEngine, "images").binding
      /\ outputBinding = EngineBindingSetup(trtEngine, "output").binding
      /\ Len(deviceMemory) = getNbBindings(trtEngine)
      /\ \A i \in 1..Len(deviceMemory) :
           /\ deviceMemory[i] # 0
           /\ heap[deviceMemory[i]] =
                dimsVolume(getBindingDimensions(trtEngine, i - 1)) * 4
           /\ \A j \in 1..Len(deviceMemory) :
                deviceMemory[i] = deviceMemory[j] => i = j
      /\ {a \in DOMAIN heap : heap[a] # 0} = Range(deviceMemory)
      /\ outputHostMemory.size = dimsVolume(outputBinding.dims)

\* engine B loaded over another engine: its three buffers are new
\* allocations, the old ones are freed
C6_Witness ==
    /\ trtEngine = "B"
    /\ Len(deviceMemory) = 3
    /\ deviceMemory[1] # 1
    /\ last.op = "loadEngine"
    /\ last.result = "SUCCESS"

\* C7 (as stated): after any sequence of operations both thresholds lie in
\* [0, 1].
C7_ThresholdsInRange ==
    /\ scoreThreshold # NaN /\ 0 <= scoreThreshold /\ scoreThreshold <= 10
    /\ nmsThreshold # NaN /\ 0 <= nmsThreshold /\ nmsThreshold <= 10

\* C8: a loadEngine call that deserialized the engine and created its
\* execution context returns RESULT_FAILURE_MODEL_ERROR when the engine has
\* no binding "images" of exactly 4 dimensions none of them -1, or no
\* binding "output" of exactly 3 dimensions none of them -1; no load of such
\* an engine returns RESULT_SUCCESS, and the live bindings of a loaded
\* engine are an input of 4 fixed and an output of 3 fixed dimensions.
C8_BindingsValidated ==
    LET Fixed(name, n, bs) ==
            \E i \in 1..Len(bs) :
              /\ bs[i].name = name
              /\ Len(bs[i].dims) = n
              /\ \A k \in 1..n : bs[i].dims[k] # -1
        Valid(bs) == Fixed("images", 4, bs) /\ Fixed("output", 3, bs)
    IN
    /\ (last.op = "loadEngine" /\ ~Valid(Blobs[last.args.blob].bindings))
         => /\ last.result # "SUCCESS"
            /\ St("input") \in Range(last.trace)
                 => last.result = "FAILURE_MODEL_ERROR"
    /\ trtEngine # "null"
         => /\ inputBinding.name = "images"
            /\ Len(inputBinding.dims) = 4
            /\ \A k \in 1..4 : inputBinding.dims[k] # -1
            /\ outputBinding.name = "output"
            /\ Len(outputBinding.dims) = 3
            /\ \A k \in 1..3 : outputBinding.dims[k] # -1

\* an engine whose "output" binding has a dynamic dimension is refused
\* while another engine is loaded
C8_Witness ==
    /\ last.op = "loadEngine"
    /\ last.args.blob = "outDyn"
    /\ last.result = "FAILURE_MODEL_ERROR"
    /\ trtEngine # "null"

\* C9: an init call on a detector whose init has succeeded returns
\* RESULT_SUCCESS and recreates nothing: logger, TensorRT logger,
\* pre-processor and runtime are the same objects, none is constructed
\* again, and isInitialized() stays true.  On a fresh instance init with
\* the default flags succeeds when no step of it fails, and a first init
\* that succeeds constructs each object once.
C9_InitIdempotent ==
    [][/\ (last'.op = "init" /\ initialized)
          => /\ last'.result = "SUCCESS"
             /\ last'.trace = <<>>
             /\ initialized'
             /\ UNCHANGED <<logger, trtLogger, preprocessor, trtRuntime,
                            created>>
       /\ last.op = "construct"
          => /\ InitRun(0, "none").result = "SUCCESS"
             /\ InitRun(0, "none").initialized
       /\ (last'.op = "init" /\ last.op = "construct"
           /\ last'.result = "SUCCESS")
          => /\ initialized'
             /\ created' = [logger |-> 1, trtLogger |-> 1,
                            preprocessor |-> 1, runtime |-> 1]]_vars

\* the second of two init calls: it ran no step and every object has been
\* constructed once
C9_Witness ==
    /\ last.op = "init"
    /\ last.result = "SUCCESS"
    /\ last.trace = <<>>
    /\ initialized
    /\ created = [logger |-> 1, trtLogger |-> 1, preprocessor |-> 1,
                  runtime |-> 1]

\* C10: an init call that reaches the selection on a detector without a
\* pre-processor selects, when the allocation succeeds: the CPU variant
\* with PREPROCESSOR_CVCPU alone; the CUDA variant with PREPROCESSOR_CVCUDA
\* alone and OpenCV-CUDA available; with neither flag the CUDA variant if
\* available, else the CPU variant.  With PREPROCESSOR_CVCUDA alone and
\* OpenCV-CUDA unavailable it returns RESULT_FAILURE_OPENCV_NO_CUDA and
\* selects nothing.  A selected pre-processor is never replaced.
C10_StrategySelection ==
    [][/\ (/\ last'.op = "init"
           /\ preprocessor.kind = "null"
           /\ St("preprocessor") \in Range(last'.trace))
          => LET cpuFlag == HasFlag(last'.args.flags, PREPROCESSOR_CVCPU)
                 cudaFlag == HasFlag(last'.args.flags, PREPROCESSOR_CVCUDA)
                 Selects(kind) ==
                     \/ preprocessor'.kind = kind
                     \/ /\ preprocessor'.kind = "null"
                        /\ last'.result = "FAILURE_ALLOC"
             IN
             /\ preprocessor'.kind \in {"null", "cpu", "cuda"}
             /\ last'.result = "SUCCESS" => preprocessor'.kind # "null"
             /\ (cpuFlag /\ ~cudaFlag) => Selects("cpu")
             /\ (cudaFlag /\ ~cpuFlag /\ cvCuda) => Selects("cuda")
             /\ (cudaFlag /\ ~cpuFlag /\ ~cvCuda)
                  => /\ last'.result = "FAILURE_OPENCV_NO_CUDA"
                     /\ preprocessor'.kind = "null"
             /\ (~cudaFlag /\ ~cpuFlag)
                  => Selects(IF cvCuda THEN "cuda" ELSE "cpu")
       /\ preprocessor.kind # "null"
          => preprocessor'.kind = preprocessor.kind]_vars

\* the CPU variant, selected by an earlier call, is still there after a
\* successful init with PREPROCESSOR_CVCUDA on a machine with OpenCV-CUDA
C10_Witness ==
    /\ last.op = "init"
    /\ last.args.flags = PREPROCESSOR_CVCUDA
    /\ last.result = "SUCCESS"
    /\ cvCuda
    /\ preprocessor.kind = "cpu"

----------------------------------------------------------------------------
(* Detector::init: flags, logging and the order of the steps               *)

\* C11: an init call with both PREPROCESSOR_CVCUDA and PREPROCESSOR_CVCPU
\* set returns RESULT_FAILURE_INVALID_INPUT, whatever the state of the
\* detector it is called on.
C11_BothFlagsRejected ==
    (/\ last.op = "init"
     /\ HasFlag(last.args.flags, PREPROCESSOR_CVCUDA)
     /\ HasFlag(last.args.flags, PREPROCESSOR_CVCPU))
    => last.result = "FAILURE_INVALID_INPUT"

\* C12: an init call that returns RESULT_SUCCESS logs no message at any
\* level.
C12_SuccessfulInitSilent ==
    (last.op = "init" /\ last.result = "SUCCESS") => last.log = <<>>

\* the steps of init, in the order of the source
InitSteps == <<"logger", "trtLogger", "preprocessor", "runtime">>

\* whether the object a step creates exists
InitStepDone(step, lg, tl, pp, rt) ==
    CASE step = "logger" -> lg # 0
      [] step = "trtLogger" -> tl.set
      [] step = "preprocessor" -> pp.kind # "null"
      [] step = "runtime" -> rt # 0

\* C13: init performs its steps in the order logger, TensorRT logger,
\* pre-processor selection, runtime creation, and only the steps whose object
\* does not exist yet.  When a step fails it is the last one performed, the
\* objects of that step and of the later ones are not created, isInitialized()
\* stays false and a failure code is returned.  When every remaining step
\* succeeds the call returns RESULT_SUCCESS with isInitialized() true.
C13_InitStepOrder ==
    [][last'.op = "init"
       => LET Before(step) ==
                  InitStepDone(step, logger, trtLogger, preprocessor, trtRuntime)
              After(step) ==
                  InitStepDone(step, logger', trtLogger', preprocessor',
                               trtRuntime')
              pending == SelectSeq(InitSteps, LAMBDA step : ~Before(step))
              tr == last'.trace
              n == Len(tr)
          IN
          /\ n <= Len(pending)
          /\ \A i \in 1..n : tr[i] = St(pending[i])
          /\ \A i \in 1..4 : Before(InitSteps[i]) => After(InitSteps[i])
          /\ last'.result = "SUCCESS"
               => /\ n = Len(pending)
                  /\ \A i \in 1..4 : After(InitSteps[i])
                  /\ initialized'
          /\ last'.result # "SUCCESS"
               => /\ last'.result \in {"FAILURE_ALLOC", "FAILURE_INVALID_INPUT",
                                       "FAILURE_OPENCV_NO_CUDA",
                                       "FAILURE_TENSORRT_ERROR"}
                  /\ n >= 1
                  /\ \A i \in 1..(n - 1) : After(pending[i])
                  /\ \A i \in n..Len(pending) : ~After(pending[i])
                  /\ ~initialized /\ ~initialized']_vars

\* an init call that only had the runtime left to create, after an earlier
\* call failed there, and completes the initialization
C13_Witness ==
    /\ last.op = "init"
    /\ last.result = "SUCCESS"
    /\ last.trace = <<St("runtime")>>
    /\ created.runtime = 1
    /\ initialized

----------------------------------------------------------------------------
(* The detections a successful call returns                                *)

\* C14: when detectBatch with n images returns RESULT_SUCCESS, 1 <= n <=
\* batch size and the output holds exactly n lists; list i is what decoding
\* gives for slice i of the output tensor, inverted with the transform
\* recorded for image i.  The lists replace the previous content of the
\* output, and a successful detect leaves in its output the detections of
\* image 1 of this call only.
C14_BatchOutputPerImage ==
    [][(/\ last'.op \in {"detect", "detectBatch"}
        /\ last'.result = "SUCCESS"
        /\ ~last'.args.outNull)
       => LET n == last'.args.n
              Decoded(i) ==
                  DecodeOutput(outputHostMemory'.data[i],
                               NumClassesOf(outputBinding), scoreThreshold,
                               nmsThreshold, preprocessor'.transforms[i],
                               classes)
          IN
          /\ n >= 1 /\ n <= BatchSizeOf(inputBinding)
          /\ last'.op = "detectBatch"
               => /\ Len(outBatch') = n
                  /\ \A i \in 1..n : outBatch'[i] = Decoded(i)
                  /\ out' = out
          /\ last'.op = "detect"
               => /\ out' = Decoded(1)
                  /\ outBatch' = outBatch]_vars

\* a batch of two images whose lists differ, each holding a detection
C14_Witness ==
    /\ last.op = "detectBatch"
    /\ last.result = "SUCCESS"
    /\ last.args.n = 2
    /\ Len(outBatch) = 2
    /\ outBatch[1] # <<>> /\ outBatch[2] # <<>>
    /\ outBatch[1] # outBatch[2]
    /\ preprocessor.transforms[1] # preprocessor.transforms[2]

\* 10 * intersection - nms * union of two boxes: negative when their
\* intersection-over-union is below the threshold nms (in tenths), 0 when it
\* is equal; boxes without area do not overlap
IoUMargin(a, b, nms) ==
    LET inter == IntersectionArea(a, b)
        union == RectArea(a) + RectArea(b) - inter
    IN IF union > 0 THEN 10 * inter - nms * union ELSE -1

----------------------------------------------------------------------------
(* The geometric transform: recorded by process, inverted by transformBbox *)

\* the transform transformBbox used in the call last describes
UsedTransform == preprocessor.transforms[last.args.slot]

\* C16: the box transformBbox returns with a transform recorded for an
\* image lies inside that image: 0 <= x < width, 0 <= y < height,
\* x + width <= image width and y + height <= image height.
C16_BoxInsideImage ==
    (/\ last.op = "transformBbox"
     /\ UsedTransform # DefaultTransform)
    => LET t == UsedTransform
           r == last.result
       IN /\ 0 <= r.x /\ r.x < t.width
          /\ 0 <= r.y /\ r.y < t.height
          /\ r.x + r.width <= t.width
          /\ r.y + r.height <= t.height

\* a box reaching beyond the right border of a letterboxed image comes back
\* cut at the border
C16_Witness ==
    /\ last.op = "transformBbox"
    /\ UsedTransform.leftWidth > 0
    /\ last.args.bbox.x + last.args.bbox.width > preprocessor.networkCols
    /\ last.result.x + last.result.width = UsedTransform.width
    /\ last.result.width > 0

\* C17: transformBbox on a default-constructed transform returns every box
\* unchanged.
C17_DefaultIsIdentity ==
    (/\ last.op = "transformBbox"
     /\ UsedTransform = DefaultTransform)
    => last.result = last.args.bbox

\* whether a box lies inside an image of the size the transform holds
InsideImage(t, b) ==
    /\ 0 <= b.x /\ b.x <= t.width - 1
    /\ 0 <= b.y /\ b.y <= t.height - 1
    /\ b.x + b.width <= t.width
    /\ b.y + b.height <= t.height

\* C18 (as stated): with the transform recorded for an image of the network
\* size (f = 1, no padding), transformBbox returns every box unchanged.
C18_AsStated ==
    (/\ last.op = "transformBbox"
     /\ UsedTransform # DefaultTransform
     /\ UsedTransform.fnum = UsedTransform.fden
     /\ UsedTransform.leftWidth = 0 /\ UsedTransform.topHeight = 0)
    => last.result = last.args.bbox

\* C18: for an image of the network size, process does not resize and
\* records the transform (image size, f = 1, no padding); transformBbox with
\* that transform returns a box unchanged if and only if the box lies
\* inside the image, and otherwise the box moved and cut to fit the image.
C18_SameSizeTransform ==
    /\ (/\ last.op = "process"
        /\ last.result = "true"
        /\ last.args.img.rows = preprocessor.networkRows
        /\ last.args.img.cols = preprocessor.networkCols)
       => /\ UsedTransform =
               [width |-> last.args.img.cols, height |-> last.args.img.rows,
                fnum |-> 1, fden |-> 1, leftWidth |-> 0, topHeight |-> 0]
          /\ StAt("resize", last.args.slot) \notin Range(last.trace)
    /\ (/\ last.op = "transformBbox"
        /\ UsedTransform # DefaultTransform
        /\ UsedTransform.fnum = UsedTransform.fden
        /\ UsedTransform.leftWidth = 0 /\ UsedTransform.topHeight = 0)
       => LET t == UsedTransform
              b == last.args.bbox
              r == last.result
          IN /\ (r = b) <=> InsideImage(t, b)
             /\ r.x = Max(0, Min(b.x, t.width - 1))
             /\ r.y = Max(0, Min(b.y, t.height - 1))
             /\ r.width = Min(b.width, t.width - r.x)
             /\ r.height = Min(b.height, t.height - r.y)

\* a box inside an image of the network size comes back unchanged
C18_Witness ==
    /\ last.op = "transformBbox"
    /\ UsedTransform.width = preprocessor.networkCols
    /\ UsedTransform.height = preprocessor.networkRows
    /\ UsedTransform.fnum = UsedTransform.fden
    /\ last.args.bbox.width > 0
    /\ InsideImage(UsedTransform, last.args.bbox)
    /\ last.result = last.args.bbox

\* C19: for an image of another size than the network input, process of
\* both variants scales by f = min(rows ratio, columns ratio), truncates the
\* scaled size to integers, pads by floor and ceil of half the remaining
\* rows and columns so that scaled size plus padding is the network size, and
\* records (image size, f, left, top).  A 1280 x 720 image on a 640 x 640
\* network gives f = 1/2, top = bottom = 140, left = right = 0, and the box
\* (300, 160, 40, 40) is inverted to (600, 40, 80, 80).
C19_Letterbox ==
    /\ (/\ last.op = "process"
        /\ last.result = "true"
        /\ (last.args.img.rows # preprocessor.networkRows
            \/ last.args.img.cols # preprocessor.networkCols))
       => LET W == last.args.img.cols
              H == last.args.img.rows
              NW == preprocessor.networkCols
              NH == preprocessor.networkRows
              b == Letterbox(last.args.img, NH, NW)
              dh == NH - b.boxHeight
              dw == NW - b.boxWidth
          IN
          \* f is one of the two ratios and not above the other
          /\ \/ b.fnum * H = b.fden * NH /\ NH * W <= NW * H
             \/ b.fnum * W = b.fden * NW /\ NW * H <= NH * W
          \* the scaled size is (W * f, H * f) truncated
          /\ b.boxWidth * b.fden <= W * b.fnum
          /\ W * b.fnum < (b.boxWidth + 1) * b.fden
          /\ b.boxHeight * b.fden <= H * b.fnum
          /\ H * b.fnum < (b.boxHeight + 1) * b.fden
          /\ dh >= 0 /\ dw >= 0
          /\ 2 * b.topHeight <= dh /\ dh < 2 * b.topHeight + 2
          /\ 2 * b.bottomHeight >= dh /\ dh > 2 * b.bottomHeight - 2
          /\ 2 * b.leftWidth <= dw /\ dw < 2 * b.leftWidth + 2
          /\ 2 * b.rightWidth >= dw /\ dw > 2 * b.rightWidth - 2
          /\ b.boxHeight + b.topHeight + b.bottomHeight = NH
          /\ b.boxWidth + b.leftWidth + b.rightWidth = NW
          /\ UsedTransform =
               [width |-> W, height |-> H, fnum |-> b.fnum, fden |-> b.fden,
                leftWidth |-> b.leftWidth, topHeight |-> b.topHeight]
          /\ StAt("resize", last.args.slot) \in Range(last.trace)
          /\ (W = 1280 /\ H = 720 /\ NW = 640 /\ NH = 640)
               => /\ 2 * b.fnum = b.fden
                  /\ b.topHeight = 140 /\ b.bottomHeight = 140
                  /\ b.leftWidth = 0 /\ b.rightWidth = 0
    /\ (/\ last.op = "transformBbox"
        /\ last.args.bbox = Rect(300, 160, 40, 40)
        /\ UsedTransform.width = 1280 /\ UsedTransform.height = 720
        /\ 2 * UsedTransform.fnum = UsedTransform.fden)
       => last.result = Rect(600, 40, 80, 80)

\* the box of the example inverted for a 1280 x 720 image pre-processed for
\* the 640 x 640 network by the OpenCV-CUDA variant
C19_Witness ==
    /\ last.op = "transformBbox"
    /\ preprocessor.kind = "cuda"
    /\ preprocessor.networkCols = 640 /\ preprocessor.networkRows = 640
    /\ UsedTransform = [width |-> 1280, height |-> 720, fnum |-> 640,
                        fden |-> 1280, leftWidth |-> 0, topHeight |-> 140]
    /\ last.args.bbox = Rect(300, 160, 40, 40)
    /\ last.result = Rect(600, 40, 80, 80)

----------------------------------------------------------------------------
(* Decoding of the rows of the output tensor                               *)

\* the largest class score of a row, and the lowest class index that has it
ClassScoreOf(row, nrClasses) ==
    CHOOSE v \in {row[6 + i] : i \in 0..(nrClasses - 1)} :
      \A i \in 0..(nrClasses - 1) : row[6 + i] <= v

ClassIdOf(row, nrClasses) ==
    CHOOSE i \in 0..(nrClasses - 1) :
      /\ row[6 + i] = ClassScoreOf(row, nrClasses)
      /\ \A j \in 0..(i - 1) : row[6 + j] < ClassScoreOf(row, nrClasses)

----------------------------------------------------------------------------
(* Class ids, scores and class names of the detections                     *)

C23_WitnessOutside ==
    /\ last.op = "detect"
    /\ last.result = "SUCCESS"
    /\ classes = <<"person">>
    /\ \E k \in 1..Len(out) : out[k].classId = 1 /\ out[k].className = ""

\* getName(2) on a list of two names, the caller's string holding "old"
C23_WitnessGetName ==
    /\ last.op = "Classes::getName"
    /\ userClasses.names = <<"person", "car">>
    /\ last.args.classId = 2
    /\ last.args.before = "old"
    /\ ~last.args.outNull
    /\ last.result = [code |-> "FAILURE_INVALID_INPUT", out |-> "old"]

\* C24: Classes::load given an empty list and Classes::loadFromFile given a
\* file without a non-blank line return a failure code and leave the names
\* held before unchanged, with or without a logger; a load that returns
\* RESULT_SUCCESS leaves the object loaded.
C24_LoadedOrUntouched ==
    [][/\ (/\ last'.op = "Classes::load"
           /\ last'.args.names = <<>>)
          => /\ last'.result # "SUCCESS"
             /\ userClasses'.names = userClasses.names
       /\ (/\ last'.op = "Classes::loadFromFile"
           /\ NonEmptyLines(last'.args.file.lines) = <<>>)
          => /\ last'.result # "SUCCESS"
             /\ userClasses'.names = userClasses.names
       /\ (/\ last'.op \in {"Classes::load", "Classes::loadFromFile"}
           /\ last'.result = "SUCCESS")
          => isLoaded(userClasses'.names)]_vars

C25_WitnessAfterLoad ==
    /\ last.op = "detect"
    /\ last.result = "SUCCESS"
    /\ classes = <<"person", "car">>
    /\ Len(out) = 2
    /\ out[1].className = "person"
    /\ out[2].className = "car"

----------------------------------------------------------------------------
(* Logger, queries, flags and stages                                       *)

\* C26: after a successful setLogger(L), whether before or after init, the
\* messages of the detector, of its pre-processor and of the TensorRT
\* runtime and engine it owns all go to L.
C26_LoggerTakesEffect ==
    (last.op = "setLogger" /\ last.result = "SUCCESS")
    => /\ logger # 0
       /\ preprocessor.kind # "null" => preprocessor.logger = logger
       /\ trtLogger.set => TensorRTSink = logger

\* the binding of an engine by name
BlobBinding(e, name) ==
    LET bs == Blobs[e].bindings
    IN bs[CHOOSE i \in 1..Len(bs) : bs[i].name = name]

\* what the three queries return for the engine loaded
ExpectedAnswer(q) ==
    IF trtEngine = "null"
    THEN (IF q = "inferenceSize" THEN [width |-> 0, height |-> 0] ELSE 0)
    ELSE LET input == BlobBinding(trtEngine, "images").dims
             output == BlobBinding(trtEngine, "output").dims
         IN CASE q = "batchSize" -> input[1]
              [] q = "numClasses" -> output[Len(output)] - 5
              [] q = "inferenceSize" -> [width |-> input[4], height |-> input[3]]

C27_WitnessLoaded ==
    /\ last.op = "numClasses"
    /\ trtEngine = "B"
    /\ last.result = 1
    /\ last.log = <<>>

\* C28: a detect or detectBatch call given both INPUT_RGB and INPUT_BGR that
\* gets as far as the pre-processor setup fails with
\* RESULT_FAILURE_INVALID_INPUT; the setup leaves the pre-processor's
\* configuration as it was (the CPU variant may have created its stream),
\* no inference is enqueued and the output is untouched.
C28_BothColourFlagsInvalid ==
    [][(/\ last'.op \in {"detect", "detectBatch"}
        /\ HasFlag(last'.args.flags, INPUT_RGB)
        /\ HasFlag(last'.args.flags, INPUT_BGR)
        /\ last'.trace # <<>>)
       => /\ last'.result = "FAILURE_INVALID_INPUT"
          /\ \A k \in 1..Len(last'.trace) : last'.trace[k][1] = "setup"
          /\ [preprocessor' EXCEPT !.stream = preprocessor.stream] = preprocessor
          /\ UNCHANGED <<out, outBatch, outputHostMemory>>]_vars

\* the positions of a stage in the trace of the last call
StagePositions(name) == {k \in 1..Len(last.trace) : last.trace[k][1] = name}

\* C29: when detect or detectBatch returns RESULT_SUCCESS nothing the call
\* put on the stream is still pending, the stream was synchronized after
\* the pre-processing, the host-to-device copy, the inference enqueue and
\* the device-to-host copy, and every decode of the host output buffer came
\* after the synchronization.
C29_Synchronous ==
    (last.op \in {"detect", "detectBatch"} /\ last.result = "SUCCESS")
    => /\ preprocessor.pending = {}
       /\ \E s \in StagePositions("sync") :
            /\ \A k \in 1..Len(last.trace) :
                 last.trace[k][1] \in {"setup", "process", "resize", "h2d",
                                       "enqueue", "d2h"} => k < s
            /\ \A k \in StagePositions("decode") : k > s
            /\ StagePositions("enqueue") # {}
            /\ StagePositions("d2h") # {}

\* a batch of two images on the CUDA pre-processor: work was queued for both
\* images and for the inference, and both slices were decoded
C29_Witness ==
    /\ last.op = "detectBatch"
    /\ last.result = "SUCCESS"
    /\ preprocessor.kind = "cuda"
    /\ last.args.n = 2
    /\ Cardinality(StagePositions("decode")) = 2
    /\ Cardinality(StagePositions("sync")) = 1
    /\ preprocessor.pending = {}

\* the stages of a call without the steps inside a stage
MainStages(tr) ==
    SelectSeq(tr, LAMBDA e : e[1] \in {"setup", "process", "enqueue", "d2h",
                                       "sync", "decode"})

\* the stages of a call with n images that runs to its end
ExpectedStages(n) ==
    <<St("setup")>> \o [i \in 1..n |-> StAt("process", i)]
    \o <<St("enqueue"), St("d2h"), St("sync")>>
    \o [i \in 1..n |-> StAt("decode", i)]

\* the stages a result code can come from
StagesOf(result) ==
    CASE result = "FAILURE_OTHER" -> {"setup", "process"}
      [] result = "FAILURE_TENSORRT_ERROR" -> {"enqueue"}
      [] result = "FAILURE_CUDA_ERROR" -> {"d2h", "sync"}
      [] result \in {"FAILURE_ALLOC", "FAILURE_OPENCV_ERROR"} -> {"decode"}
      [] OTHER -> {}

\* C30: a detect or detectBatch call that passed its argument checks runs
\* setup, process of image 0..n-1 in order, one enqueue, one output copy,
\* one synchronization and decode of slice 0..n-1, in this order; the
\* host-to-device copy of the CPU pre-processor comes with the last image
\* only; a call that fails stops at the stage its result code comes from.
C30_StageOrder ==
    (last.op \in {"detect", "detectBatch"} /\ last.trace # <<>>)
    => LET m == MainStages(last.trace)
           e == ExpectedStages(last.args.n)
       IN /\ Len(m) <= Len(e)
          /\ \A k \in 1..Len(m) : m[k] = e[k]
          /\ \A k \in 1..Len(last.trace) :
               last.trace[k][1] = "h2d" => last.trace[k][2] = last.args.n
          /\ IF last.result = "SUCCESS" THEN m = e
             ELSE m[Len(m)][1] \in StagesOf(last.result)

\* a batch of two images that failed in the second process call: the first
\* image was processed, nothing was enqueued
C30_Witness ==
    /\ last.op = "detectBatch"
    /\ last.args.n = 2
    /\ last.result = "FAILURE_OTHER"
    /\ MainStages(last.trace) = <<St("setup"), StAt("process", 1), StAt("process", 2)>>

\* a batch of two images that ran to its end
C30_WitnessComplete ==
    /\ last.op = "detectBatch"
    /\ last.result = "SUCCESS"
    /\ MainStages(last.trace) = ExpectedStages(2)

----------------------------------------------------------------------------
(* Buffers, stream and configuration of the pre-processor                  *)

\* the steps of the last call that overwrite a scratch buffer of the CUDA
\* pre-processor for the image of a slot: the upload to _buffer0, and the
\* resize, pad and normalize work on _buffer1.._buffer3, which starts where
\* the process call goes on after its checks
OverwritesFor(slot) ==
    {k \in 1..Len(last.trace) :
        \/ last.trace[k] = StAt("upload", slot)
        \/ last.trace[k] = StAt("resize", slot)}

\* C31: on the CUDA pre-processor, every overwrite of a scratch buffer for
\* the image of slot i+1 comes after a stream synchronization that follows
\* the process call of slot i.
C31_ScratchBuffersSynchronized ==
    (last.op \in {"detect", "detectBatch"} /\ preprocessor.kind = "cuda")
    => \A slot \in 2..last.args.n :
         \A k \in OverwritesFor(slot) :
           \E p \in 1..k : \E s \in p..k :
             /\ last.trace[p] = StAt("process", slot - 1)
             /\ last.trace[s][1] = "streamsync"

\* C32: a call on the CPU pre-processor that gets to the inference has
\* issued one host-to-device copy, in the process call of the last image
\* and before the enqueue; no call issues a copy with another image or a
\* second one.
C32_OneCopyPerBatch ==
    (last.op \in {"detect", "detectBatch"} /\ preprocessor.kind = "cpu")
    => /\ \A k \in StagePositions("h2d") : last.trace[k][2] = last.args.n
       /\ Cardinality(StagePositions("h2d")) <= 1
       /\ \A e \in StagePositions("enqueue") :
            \E k \in StagePositions("h2d") : \E p \in 1..k :
              /\ last.trace[p] = StAt("process", last.args.n)
              /\ k < e
              /\ \A q \in p..k : last.trace[q][1] # "enqueue"

\* a batch of two images on the CPU pre-processor: the copy follows the
\* second image
C32_Witness ==
    /\ last.op = "detectBatch"
    /\ last.result = "SUCCESS"
    /\ preprocessor.kind = "cpu"
    /\ last.args.n = 2
    /\ StAt("h2d", 2) \in Range(last.trace)
    /\ StAt("h2d", 1) \notin Range(last.trace)

\* the colour order and batch size of a setup call
AskedType == InputTypeOf(last'.args.flags)
AskedBatch == last'.args.dims[1]

\* whether the pre-processor holds channels for its last type and batch size
Configured(p) ==
    /\ p.lastType # INPUTTYPE_NONE
    /\ p.nChannels = p.lastBatchSize
    /\ p.channelType = p.lastType

\* C33: a setup call with the colour order and batch size the pre-processor
\* is configured for, with no reset since, returns true and leaves the
\* pre-processor as it is, whatever dimensions and device pointer it is
\* given; a setup call with another colour order or batch size that returns
\* true has set the network size, the channels and the device pointer for
\* its own arguments.
C33_SetupIdempotent ==
    [][(/\ last'.op = "setup"
        /\ ~(HasFlag(last'.args.flags, INPUT_RGB)
             /\ HasFlag(last'.args.flags, INPUT_BGR)))
       => IF /\ preprocessor.lastType = AskedType
             /\ preprocessor.lastBatchSize = AskedBatch
          THEN Configured(preprocessor)
               => /\ last'.result = "true"
                  /\ preprocessor' = preprocessor
          ELSE last'.result = "true"
               => /\ Configured(preprocessor')
                  /\ preprocessor'.lastType = AskedType
                  /\ preprocessor'.lastBatchSize = AskedBatch
                  /\ preprocessor'.networkRows = last'.args.dims[3]
                  /\ preprocessor'.networkCols = last'.args.dims[4]
                  /\ preprocessor'.inputMemory = last'.args.memory]_vars

\* a setup for RGB and two images that returned true on a pre-processor
\* configured for it, with another network size and device pointer
C33_Witness ==
    /\ last.op = "setup"
    /\ last.result = "true"
    /\ last.args.flags = INPUT_RGB
    /\ last.args.dims = <<2, 3, 2, 2>>
    /\ last.args.memory = 2
    /\ preprocessor.lastType = INPUTTYPE_RGB
    /\ preprocessor.networkRows = 4
    /\ preprocessor.inputMemory = 1

\* the device buffer of the input binding of the engine loaded
InputBuffer == deviceMemory[inputBinding.index + 1]

LocalSets ==
    {LoadBuild(in.src, in.blob, in.fault).memory : in \in LoadInputsMemory}

\* C35: between the operations the allocated device buffers are exactly those
\* of the detector's set, each held once (nothing leaked); no address was
\* ever freed while free or freed twice; and the local set of a load never
\* shares a buffer with the detector's set.
C35_BuffersReleasedOnce ==
    /\ \A a \in DOMAIN heap : heap[a] >= 0
    /\ {a \in DOMAIN heap : heap[a] > 0} = Range(deviceMemory) \ {0}
    /\ \A i, j \in DOMAIN deviceMemory :
         deviceMemory[i] = deviceMemory[j] => i = j
    /\ initialized =>
         \A mem \in LocalSets : Range(mem) \cap Range(deviceMemory) = {}

\* a load over a loaded engine failed in the allocation of its second
\* buffer: the first one was released, the old set is still allocated
C35_Witness ==
    /\ last.op = "loadEngine"
    /\ last.result = "FAILURE_CUDA_ERROR"
    /\ trtEngine # "null"
    /\ Len(deviceMemory) >= 2
    /\ {a \in DOMAIN heap : heap[a] > 0} = Range(deviceMemory)

\* the detector was destroyed while it held an engine, and nothing is
\* allocated afterwards
C35_WitnessDestroyed ==
    /\ last.op = "destroy"
    /\ \A a \in DOMAIN heap : heap[a] = 0
    /\ created.runtime > 0

\* the slots whose decode ran to its end in the call d
DecodedSlots(d) ==
    {e[2] : e \in {x \in Range(d.trace) : x[1] = "decode"}} \cap 1..Len(d.lists)

\* C36: in every state, whatever transforms earlier calls left behind, a
\* detectBatch call of images imgs that decodes slot i reads there the
\* transform of imgs[i] for the network size in use, and the detections of
\* slot i are those inverted with that transform.
C36_DecodeUsesOwnTransform ==
    \A in \in DetectInputsSlots :
        DetectPrecondition(in.imgs, in.variant, TRUE) = "" =>
          LET d == DetectRun(in.imgs, in.variant, in.flags, in.fault,
                             OutputTensors(trtEngine)[in.tensor])
          IN \A i \in DecodedSlots(d) :
               LET t == ImageTransform(in.imgs[i], d.pre.networkRows,
                                       d.pre.networkCols)
               IN /\ d.pre.transforms[i] = t
                  /\ d.lists[i] =
                       DecodeOutput(d.host.data[i], NumClassesOf(outputBinding),
                                    scoreThreshold, nmsThreshold, t, classes)

\* a call of one image went through decode while slot 2 still holds the
\* transform of an earlier call of two images
C36_Witness ==
    /\ last.op = "detectBatch"
    /\ last.args.n = 1
    /\ last.result = "SUCCESS"
    /\ StagePositions("decode") # {}
    /\ Len(preprocessor.transforms) = 2
    /\ preprocessor.transforms[2] # DefaultTransform
    /\ preprocessor.transforms[1] # DefaultTransform

\* isEngineLoaded() implies isInitialized(), which implies that the four
\* objects of init exist
LifecycleGuards ==
    /\ isEngineLoaded => initialized
    /\ initialized => /\ logger # 0
                      /\ trtLogger.set
                      /\ preprocessor.kind # "null"
                      /\ trtRuntime # 0

\* C37: the guards hold in every state; no step takes the detector back to
\* not initialized or to not loaded, or the logger back to null; and
\* setLogger(nullptr) returns RESULT_FAILURE_INVALID_INPUT and keeps the
\* logger.
C37_LifecycleMonotone ==
    /\ []LifecycleGuards
    /\ [][/\ initialized => initialized'
          /\ isEngineLoaded => isEngineLoaded'
          /\ logger # 0 => logger' # 0
          /\ (last'.op = "setLogger" /\ last'.result # "SUCCESS")
               => /\ last'.result = "FAILURE_INVALID_INPUT"
                  /\ logger' = logger]_vars

\* setLogger(nullptr) was refused on a detector that holds an engine
C37_Witness ==
    /\ last.op = "setLogger"
    /\ last.result = "FAILURE_INVALID_INPUT"
    /\ logger # 0
    /\ initialized
    /\ isEngineLoaded

\* C38 (as stated): a setup call that returns true leaves the pre-processor
\* with channel views of the colour order and for the batch size it was
\* asked for, also when it follows a setup call with the same colour order
\* and batch size that returned false.
C38_TrueMeansConfigured ==
    (last.op = "setup" /\ last.result = "true")
    => /\ preprocessor.nChannels = last.args.dims[1]
       /\ preprocessor.channelType = InputTypeOf(last.args.flags)

\* Detector::_decodeOutput: the offset (in floats) behind the last element
\* read for slot index, rows of rowSize floats of which ptr[4] and the class
\* scores ptr[5 .. 5 + nrClasses - 1] are read
DecodeEnd(slot) ==
    LET numGridBoxes == outputBinding.dims[2]
        rowSize == outputBinding.dims[3]
    IN IF numGridBoxes = 0 THEN 0
       ELSE (slot - 1) * numGridBoxes * rowSize + (numGridBoxes - 1) * rowSize
            + Max(5, 5 + NumClassesOf(outputBinding))

\* C39 (as stated): in a detect or detectBatch call on an engine that
\* loadEngine accepted, the staging writes for every slot processed and the
\* host-to-device copy end inside the host input buffer, and the decode of
\* every slot ends inside the host output buffer.
C39_HostAccessesInBounds ==
    last.op \in {"detect", "detectBatch"} =>
      /\ preprocessor.kind = "cpu" =>
           /\ \A i \in {e[2] : e \in {x \in Range(last.trace) : x[1] = "process"}} :
                StagingEnd(preprocessor, i) <= preprocessor.hostInputSize
           /\ StagePositions("h2d") # {}
                => HostCopyCount(preprocessor) <= preprocessor.hostInputSize
      /\ \A i \in {e[2] : e \in {x \in Range(last.trace) : x[1] = "decode"}} :
           DecodeEnd(i) <= outputHostMemory.size

\* C40 (as stated): when a detect or detectBatch call gets to process its
\* first image, nothing queued by an earlier call is still pending on the
\* stream.  Every queued operation (pre-processing, host-to-device copy,
\* inference, device-to-host copy) uses a scratch, staging, input or output
\* buffer that the new call writes.
C40_NoPendingAtStart ==
    [][(/\ last'.op \in {"detect", "detectBatch"}
        /\ \E i \in DOMAIN last'.trace : last'.trace[i][1] = "process")
       => preprocessor.pending = {}]_vars

====
